---- MODULE Spec2Model ----
(***************************************************************************)
(* Portfolio backtester backend: the three CSV parsers, the report         *)
(* pipeline of process_*_csv, the upload handler process_files and the     *)
(* filter handler filter_by_date.                                          *)
(*                                                                         *)
(* Time is counted in whole hours since 1970-01-01 00:00 on a calendar     *)
(* whose months all have DaysPerMonth days.  A Python datetime is          *)
(* [ty |-> "datetime", v |-> hours]; its isoformat() text is               *)
(* [ty |-> "str", v |-> hours]; its strftime("%Y-%m-%d") text is           *)
(* [ty |-> "ymd", v |-> day].  Profits and margins are integers.           *)
(***************************************************************************)
EXTENDS Integers, Sequences, FiniteSets, TLC

VARIABLES
    pc,               \* "ready" | "processed" | "uploaded" | "filtered"
    format_type,      \* request.form 'format'
    uploads,          \* the uploaded files: [path, lines], in request order
    quantities,       \* request.form 'quantities' as a list
    new_data,         \* the table get_margins() returns while the request runs
    portfolio_data,   \* locals of the last process_*_csv call
    response,         \* HTTP response of process_files
    filter_request,   \* JSON body of the last /api/filter request
    filtered,         \* locals of the last filter_by_date call
    filter_response,  \* HTTP response of filter_by_date
    temp_dir,             \* the temp_<i>.csv files of the working directory
    requests,         \* the /api/process requests that run concurrently
    cache_file,       \* margins_cache.json
    today,            \* datetime.date.today(), as a day number
    calls             \* the get_margins() calls made so far, oldest first

vars == <<pc, format_type, uploads, quantities, new_data, portfolio_data,
          response, filter_request, filtered, filter_response, temp_dir,
          requests, cache_file, today, calls>>

\* the state of the concurrent uploads and of the margin cache
otherVars == <<temp_dir, requests, cache_file, today, calls>>

-----------------------------------------------------------------------------
(* Calendar *)

HoursPerDay == 24
DaysPerMonth == 30

\* The hour at which the modelled window of timestamps starts, on the last
\* day of a month, and the number of hours it spans after that.
FirstHour == 20
SpanHours == 4

LastDayStart == (DaysPerMonth - 1) * HoursPerDay
Times == { LastDayStart + h : h \in FirstHour .. (FirstHour + SpanHours) }

Dt(t) == [ty |-> "datetime", v |-> t]
EmptyStr == [ty |-> "empty", v |-> 0]

hour_of(d) == d.v % HoursPerDay
date_of(d) == d.v \div HoursPerDay
month_of(d) == d.v \div (HoursPerDay * DaysPerMonth)

isoformat(d) == [ty |-> "str", v |-> d.v]
fromisoformat(s) == [ty |-> "datetime", v |-> s.v]
strftime_ymd(d) == [ty |-> "ymd", v |-> date_of(d)]
year_month_key(d) == [ty |-> "ym", v |-> month_of(d)]

datetime_1970_1_1 == Dt(0)
datetime_2100_1_1 == Dt(130 * 12 * DaysPerMonth * HoursPerDay)

-----------------------------------------------------------------------------
(* Generic helpers *)

\* name = value, then the rest of the function body
With(value, rest(_)) == rest(value)

RECURSIVE SumSeq(_)
SumSeq(s) == IF s = <<>> THEN 0 ELSE s[1] + SumSeq(Tail(s))

RECURSIVE MaxSeq(_)
MaxSeq(s) == IF Len(s) = 1 THEN s[1]
             ELSE LET m == MaxSeq(Tail(s)) IN IF s[1] >= m THEN s[1] ELSE m

RECURSIVE MinSeq(_)
MinSeq(s) == IF Len(s) = 1 THEN s[1]
             ELSE LET m == MinSeq(Tail(s)) IN IF s[1] <= m THEN s[1] ELSE m

Abs(x) == IF x < 0 THEN -x ELSE x

RECURSIVE Flatten(_)
Flatten(ss) == IF ss = <<>> THEN <<>> ELSE ss[1] \o Flatten(Tail(ss))

-----------------------------------------------------------------------------
(* CSV text.  A line is the list line.split(",") of its column texts. *)

EmptyText == [k |-> "empty", v |-> 0, s |-> "-"]
BlankText == [k |-> "blank", v |-> 0, s |-> "-"]
JunkText == [k |-> "junk", v |-> 0, s |-> "-"]
DateTimeText(t) == [k |-> "datetime", v |-> t, s |-> "-"]
DatePartText(day) == [k |-> "date", v |-> day, s |-> "-"]
TimePartText(h) == [k |-> "time", v |-> h, s |-> "-"]
\* a number text: s is "plain" (12.5), "minus" (-12.5) or "paren" ((12.5))
NumText(style, mag) == [k |-> "num", v |-> mag, s |-> style]

strip(text) == IF text.k = "blank" THEN EmptyText ELSE text

\* row[k].strip() if len(row) > k else ""      (k is the 0-based column)
column(row, k) == IF Len(row) > k THEN strip(row[k + 1]) ELSE EmptyText

Raised == [raised |-> TRUE, val |-> 0]
Ok(x) == [raised |-> FALSE, val |-> x]

parse_date(date_str) ==
    IF date_str.k = "datetime" THEN Ok(Dt(date_str.v)) ELSE Raised

parse_ninjatrader_date(date_str) ==
    IF date_str.k = "datetime" THEN Ok(Dt(date_str.v)) ELSE Raised

\* the argument is the pair f"{date_str} {time_str}"
parse_multicharts_date(date_str, time_str) ==
    IF date_str.k = "date" /\ time_str.k = "time"
    THEN Ok(Dt(date_str.v * HoursPerDay + time_str.v))
    ELSE Raised

parse_profit(profit_str) ==
    IF profit_str.k # "num" THEN Raised
    ELSE IF profit_str.s = "paren" THEN Ok(-profit_str.v)
    ELSE IF profit_str.s = "minus" THEN Ok(-profit_str.v)
    ELSE Ok(profit_str.v)

parse_multicharts_profit(profit_str) ==
    IF profit_str.k # "num" \/ profit_str.s = "paren" THEN Raised
    ELSE IF profit_str.s = "minus" THEN Ok(-profit_str.v)
    ELSE Ok(profit_str.v)

parse_ninjatrader_profit(profit_str) ==
    IF profit_str.k # "num" \/ profit_str.s = "paren" THEN Raised
    ELSE IF profit_str.s = "minus" THEN Ok(-profit_str.v)
    ELSE Ok(profit_str.v)

Trade(open_time, exit_time, profit) ==
    [openTime |-> open_time, exitTime |-> exit_time, profit |-> profit]

TradestationHeaderLines == 6
MultichartsHeaderLines == 1
NinjatraderHeaderLines == 1

RECURSIVE tradestation_loop(_, _, _, _)
tradestation_loop(lines, quantity, i, trades) ==
    IF ~(i < Len(lines) - 1) THEN trades
    ELSE
      LET open_row == lines[i + 1]
          close_row == lines[i + 2]
          open_time_str == column(open_row, 2)
          exit_time_str == column(close_row, 2)
          profit_str == column(open_row, 7)
          open_time == parse_date(open_time_str)
          exit_time == parse_date(exit_time_str)
          profit == parse_profit(profit_str)
      IN IF open_time_str = EmptyText \/ exit_time_str = EmptyText
            \/ profit_str = EmptyText
         THEN tradestation_loop(lines, quantity, i + 2, trades)
         ELSE IF open_time.raised \/ exit_time.raised \/ profit.raised
         THEN tradestation_loop(lines, quantity, i + 2, trades)
         ELSE tradestation_loop(lines, quantity, i + 2,
                 Append(trades, Trade(open_time.val, exit_time.val,
                                      profit.val * quantity)))

parse_tradestation_csv(lines, quantity) ==
    tradestation_loop(lines, quantity, TradestationHeaderLines, <<>>)

RECURSIVE multicharts_loop(_, _, _, _)
multicharts_loop(lines, quantity, i, trades) ==
    IF ~(i < Len(lines)) THEN trades
    ELSE
      LET row == lines[i + 1]
          date_str == column(row, 0)
          time_str == column(row, 1)
          entry_date_str == column(row, 5)
          entry_time_str == column(row, 6)
          profit_str == column(row, 10)
          exit_time == parse_multicharts_date(date_str, time_str)
          open_time == parse_multicharts_date(entry_date_str, entry_time_str)
          profit == parse_multicharts_profit(profit_str)
      IN IF date_str = EmptyText \/ time_str = EmptyText
            \/ profit_str = EmptyText \/ entry_date_str = EmptyText
            \/ entry_time_str = EmptyText
         THEN multicharts_loop(lines, quantity, i + 1, trades)
         ELSE IF exit_time.raised \/ open_time.raised \/ profit.raised
         THEN multicharts_loop(lines, quantity, i + 1, trades)
         ELSE multicharts_loop(lines, quantity, i + 1,
                 Append(trades, Trade(open_time.val, exit_time.val,
                                      profit.val * quantity)))

parse_multicharts_csv(lines, quantity) ==
    multicharts_loop(lines, quantity, MultichartsHeaderLines, <<>>)

RECURSIVE ninjatrader_loop(_, _, _, _)
ninjatrader_loop(lines, quantity, i, trades) ==
    IF ~(i < Len(lines)) THEN trades
    ELSE
      LET row == lines[i + 1]
          entry_time_str == column(row, 0)
          exit_time_str == column(row, 1)
          profit_str == column(row, 2)
          open_time == parse_ninjatrader_date(entry_time_str)
          exit_time == parse_ninjatrader_date(exit_time_str)
          profit == parse_ninjatrader_profit(profit_str)
      IN IF entry_time_str = EmptyText \/ exit_time_str = EmptyText
            \/ profit_str = EmptyText
         THEN ninjatrader_loop(lines, quantity, i + 1, trades)
         ELSE IF open_time.raised \/ exit_time.raised \/ profit.raised
         THEN ninjatrader_loop(lines, quantity, i + 1, trades)
         ELSE ninjatrader_loop(lines, quantity, i + 1,
                 Append(trades, Trade(open_time.val, exit_time.val,
                                      profit.val * quantity)))

\* a parser that gives up the rest of the file at the first row that raises
RECURSIVE ninjatrader_abort_loop(_, _, _, _)
ninjatrader_abort_loop(lines, quantity, i, trades) ==
    IF ~(i < Len(lines)) THEN trades
    ELSE
      LET row == lines[i + 1]
          entry_time_str == column(row, 0)
          exit_time_str == column(row, 1)
          profit_str == column(row, 2)
          open_time == parse_ninjatrader_date(entry_time_str)
          exit_time == parse_ninjatrader_date(exit_time_str)
          profit == parse_ninjatrader_profit(profit_str)
      IN IF entry_time_str = EmptyText \/ exit_time_str = EmptyText
            \/ profit_str = EmptyText
         THEN ninjatrader_abort_loop(lines, quantity, i + 1, trades)
         ELSE IF open_time.raised \/ exit_time.raised \/ profit.raised
         THEN trades
         ELSE ninjatrader_abort_loop(lines, quantity, i + 1,
                 Append(trades, Trade(open_time.val, exit_time.val,
                                      profit.val * quantity)))

parse_ninjatrader_csv_abort(lines, quantity) ==
    ninjatrader_abort_loop(lines, quantity, NinjatraderHeaderLines, <<>>)

parse_ninjatrader_csv(lines, quantity) ==
    ninjatrader_loop(lines, quantity, NinjatraderHeaderLines, <<>>)

-----------------------------------------------------------------------------
(* Time-series derivations *)

RECURSIVE equity_loop(_, _, _)
equity_loop(trades, cumulative_profit, equity) ==
    IF trades = <<>> THEN equity
    ELSE LET c == cumulative_profit + trades[1].profit
         IN equity_loop(Tail(trades), c, Append(equity, c))

\* the profit of each trade instead of the running sum
calculate_equity_curve_no_carry(trades) ==
    [i \in DOMAIN trades |-> trades[i].profit]

calculate_equity_curve(trades) == equity_loop(trades, 0, <<>>)

RECURSIVE drawdown_loop(_, _, _)
drawdown_loop(equity, peak, drawdowns) ==
    IF equity = <<>> THEN drawdowns
    ELSE LET value == equity[1]
             p == IF value > peak THEN value ELSE peak
             drawdown == p - value
         IN drawdown_loop(Tail(equity), p, Append(drawdowns, -drawdown))

\* the peak starting at 0 instead of the first equity value
calculate_drawdowns_peak0(equity) == drawdown_loop(equity, 0, <<>>)

calculate_drawdowns(equity) ==
    drawdown_loop(equity, IF equity # <<>> THEN equity[1] ELSE 0, <<>>)

\* a dict in insertion order: a sequence of [key, value] entries
RECURSIVE dict_add(_, _, _)
dict_add(d, key, amount) ==
    IF d = <<>> THEN <<[key |-> key, value |-> 0 + amount]>>
    ELSE IF d[1].key = key
         THEN <<[key |-> key, value |-> d[1].value + amount]>> \o Tail(d)
         ELSE <<d[1]>> \o dict_add(Tail(d), key, amount)

RECURSIVE monthly_loop(_, _)
monthly_loop(trades, monthly_returns) ==
    IF trades = <<>> THEN Ok(monthly_returns)
    ELSE IF trades[1].exitTime.ty # "datetime" THEN Raised
    ELSE monthly_loop(Tail(trades),
            dict_add(monthly_returns, year_month_key(trades[1].exitTime),
                     trades[1].profit))

calculate_monthly_returns(trades) == monthly_loop(trades, <<>>)

RECURSIVE daily_loop(_, _)
daily_loop(trades, daily_returns) ==
    IF trades = <<>> THEN Ok(daily_returns)
    ELSE IF trades[1].exitTime.ty # "datetime" THEN Raised
    ELSE daily_loop(Tail(trades),
            dict_add(daily_returns, strftime_ymd(trades[1].exitTime),
                     trades[1].profit))

calculate_daily_returns(trades) == daily_loop(trades, <<>>)

-----------------------------------------------------------------------------
(* Statistics.  Profits are whole numbers; a float that is not one is kept
   exactly: sign * num / den, or sign * sqrt(num / den) for the ratios that
   divide by a standard deviation. *)

PlaceholderAccountReq == 10000
TradingDaysPerYear == 252

Sign(x) == IF x > 0 THEN 1 ELSE IF x < 0 THEN -1 ELSE 0

Infinity == [kind |-> "inf", sign |-> 1, num |-> 0, den |-> 0]
NaN == [kind |-> "nan", sign |-> 0, num |-> 0, den |-> 0]
Zero == [kind |-> "number", sign |-> 0, num |-> 0, den |-> 1]

\* n / d of two floats, d # 0
Quotient(n, d) ==
    IF n = 0 THEN Zero
    ELSE [kind |-> "number", sign |-> Sign(n) * Sign(d), num |-> Abs(n),
          den |-> Abs(d)]

\* sign * sqrt(n / d), d > 0
Root(sign, n, d) ==
    IF n = 0 THEN Zero
    ELSE [kind |-> "root", sign |-> sign, num |-> n, den |-> d]

RECURSIVE max_consecutive_loop(_, _, _)
max_consecutive_loop(series, max_consec, current_consec) ==
    IF series = <<>> THEN max_consec
    ELSE IF series[1]
         THEN LET c == current_consec + 1
              IN max_consecutive_loop(Tail(series),
                    IF max_consec >= c THEN max_consec ELSE c, c)
         ELSE max_consecutive_loop(Tail(series), max_consec, 0)

\* the run not reset by a value that is false
RECURSIVE max_consecutive_no_reset_loop(_, _, _)
max_consecutive_no_reset_loop(series, max_consec, current_consec) ==
    IF series = <<>> THEN max_consec
    ELSE IF series[1]
         THEN LET c == current_consec + 1
              IN max_consecutive_no_reset_loop(Tail(series),
                    IF max_consec >= c THEN max_consec ELSE c, c)
         ELSE max_consecutive_no_reset_loop(Tail(series), max_consec,
                                            current_consec)

max_consecutive_no_reset(series) == max_consecutive_no_reset_loop(series, 0, 0)

max_consecutive(series) == max_consecutive_loop(series, 0, 0)

placeholder_statistics ==
    [totalNetProfit |-> 0,
     maxDrawdown |-> 0,
     meanDrawdown |-> Zero,
     netProfitMaxDD |-> Infinity,
     netProfitMeanDD |-> Infinity,
     profitFactor |-> Infinity,
     winRatioPercentage |-> Zero,
     riskRewardRatio |-> Zero,
     totalTrades |-> 0,
     averageTradeProfit |-> Zero,
     maxConsecutiveWinningTrades |-> 0,
     maxConsecutiveLosingTrades |-> 0,
     tradesPerMonth |-> Zero,
     netProfitPerMonth |-> Zero,
     sharpeRatio |-> Zero,
     sortinoRatio |-> Zero,
     realMinimumAccountReq |-> PlaceholderAccountReq]

profits_of(trades) == [i \in DOMAIN trades |-> trades[i].profit]
is_positive(x) == x > 0
is_negative(x) == x < 0

\* total_gross_profit / total_gross_loss with the division left out when
\* there is no winning trade
profit_factor_needs_win(winning_profits, losing_profits) ==
    IF winning_profits = <<>> THEN Zero
    ELSE IF Abs(SumSeq(losing_profits)) # 0
    THEN Quotient(SumSeq(winning_profits), Abs(SumSeq(losing_profits)))
    ELSE Infinity

profit_factor(winning_profits, losing_profits) ==
    IF Abs(SumSeq(losing_profits)) # 0
    THEN Quotient(SumSeq(winning_profits), Abs(SumSeq(losing_profits)))
    ELSE Infinity

risk_reward_ratio(winning_profits, losing_profits) ==
    IF losing_profits # <<>> /\ SumSeq(losing_profits) # 0
    THEN IF winning_profits = <<>> THEN Zero
         ELSE Quotient(SumSeq(winning_profits) * Len(losing_profits),
                       Len(winning_profits) * Abs(SumSeq(losing_profits)))
    ELSE Infinity

\* total_net_profit / max_drawdown without the test of the divisor: float
\* division by zero raises
net_profit_max_dd_unguarded(total_net_profit, max_drawdown) ==
    IF max_drawdown # 0 THEN Ok(Quotient(total_net_profit, max_drawdown))
    ELSE Raised

net_profit_max_dd(total_net_profit, max_drawdown) ==
    Ok(IF max_drawdown # 0 THEN Quotient(total_net_profit, max_drawdown)
       ELSE Infinity)

\* abs(sum(drawdowns) / len(drawdowns))
mean_drawdown_of(drawdowns) ==
    IF drawdowns # <<>> THEN Quotient(Abs(SumSeq(drawdowns)), Len(drawdowns))
    ELSE Zero

net_profit_mean_dd(total_net_profit, drawdowns) ==
    IF mean_drawdown_of(drawdowns) # Zero
    THEN Quotient(total_net_profit * Len(drawdowns), Abs(SumSeq(drawdowns)))
    ELSE Infinity

\* df_trades.groupby('date')['profit'].sum(): the profit of each exit day
RECURSIVE groupby_date_sum(_, _)
groupby_date_sum(trades, sums) ==
    IF trades = <<>> THEN [i \in DOMAIN sums |-> sums[i].value]
    ELSE groupby_date_sum(Tail(trades),
            dict_add(sums, date_of(trades[1].exitTime), trades[1].profit))

squares(xs) == [i \in DOMAIN xs |-> xs[i] * xs[i]]

\* n * (n - 1) times the sample variance of xs (pandas: ddof = 1)
scaled_variance(xs) == Len(xs) * SumSeq(squares(xs)) - SumSeq(xs) * SumSeq(xs)

\* mean / std * sqrt(252); the std of a single value is NaN, and NaN != 0
sharpe_ratio(daily_returns) ==
    IF Len(daily_returns) < 2 THEN NaN
    ELSE IF scaled_variance(daily_returns) = 0 THEN Zero
    ELSE Root(Sign(SumSeq(daily_returns)),
              TradingDaysPerYear * SumSeq(daily_returns) * SumSeq(daily_returns)
                 * (Len(daily_returns) - 1),
              Len(daily_returns) * scaled_variance(daily_returns))

sortino_of(daily_returns, negative_returns) ==
    IF negative_returns = <<>> THEN Zero
    ELSE IF Len(negative_returns) < 2 THEN NaN
    ELSE IF scaled_variance(negative_returns) = 0 THEN Zero
    ELSE Root(Sign(SumSeq(daily_returns)),
              TradingDaysPerYear * SumSeq(daily_returns) * SumSeq(daily_returns)
                 * Len(negative_returns) * (Len(negative_returns) - 1),
              Len(daily_returns) * Len(daily_returns)
                 * scaled_variance(negative_returns))

sortino_ratio(daily_returns) ==
    sortino_of(daily_returns, SelectSeq(daily_returns, is_negative))

statistics_of(trades, equity, drawdowns, winning_profits, losing_profits, months, daily_returns) ==
    With(net_profit_max_dd(equity[Len(equity)],
                           IF drawdowns # <<>> THEN Abs(MinSeq(drawdowns))
                           ELSE 0),
         LAMBDA max_dd_ratio :
    IF max_dd_ratio.raised THEN Raised
    ELSE
      Ok([totalNetProfit |-> equity[Len(equity)],
          maxDrawdown |-> IF drawdowns # <<>> THEN Abs(MinSeq(drawdowns))
                          ELSE 0,
          meanDrawdown |-> mean_drawdown_of(drawdowns),
          netProfitMaxDD |-> max_dd_ratio.val,
          netProfitMeanDD |-> net_profit_mean_dd(equity[Len(equity)], drawdowns),
          profitFactor |-> profit_factor(winning_profits, losing_profits),
          winRatioPercentage |-> Quotient(Len(winning_profits) * 100, Len(trades)),
          riskRewardRatio |-> risk_reward_ratio(winning_profits, losing_profits),
          totalTrades |-> Len(trades),
          averageTradeProfit |-> Quotient(SumSeq(profits_of(trades)), Len(trades)),
          maxConsecutiveWinningTrades |->
              max_consecutive([i \in DOMAIN trades |-> trades[i].profit > 0]),
          maxConsecutiveLosingTrades |->
              max_consecutive([i \in DOMAIN trades |-> trades[i].profit < 0]),
          tradesPerMonth |-> Quotient(Len(trades), IF months > 1 THEN months ELSE 1),
          netProfitPerMonth |->
              Quotient(equity[Len(equity)], IF months > 1 THEN months ELSE 1),
          sharpeRatio |-> IF Len(trades) > 1 THEN sharpe_ratio(daily_returns)
                          ELSE Zero,
          sortinoRatio |-> IF Len(trades) > 1 THEN sortino_ratio(daily_returns)
                           ELSE Zero,
          realMinimumAccountReq |->
              (IF drawdowns # <<>> THEN Abs(MinSeq(drawdowns)) ELSE 0) * 2]))

calculate_statistics(trades, equity, drawdowns) ==
    IF trades = <<>> \/ equity = <<>>
    THEN Ok(placeholder_statistics)
    ELSE IF \E i \in DOMAIN trades : trades[i].exitTime.ty # "datetime"
    THEN Raised      \* x.year of a str, line 522
    ELSE statistics_of(trades, equity, drawdowns,
            SelectSeq(profits_of(trades), is_positive),
            SelectSeq(profits_of(trades), is_negative),
            Cardinality({ month_of(trades[i].exitTime) : i \in DOMAIN trades }),
            groupby_date_sum(trades, <<>>))

-----------------------------------------------------------------------------
(* Correlation of the strategies.  A cell of a DataFrame of returns is a
   fraction n / d of whole numbers (d > 0), an infinity or NaN. *)

One == [kind |-> "number", sign |-> 1, num |-> 1, den |-> 1]

Fraction(n, d) == [kind |-> "fin", n |-> n, d |-> d]
InfCell(sign) == [kind |-> "inf", n |-> sign, d |-> 1]
NaNCell == [kind |-> "nan", n |-> 0, d |-> 1]

QAdd(a, b) == Fraction(a.n * b.d + b.n * a.d, a.d * b.d)
QSub(a, b) == Fraction(a.n * b.d - b.n * a.d, a.d * b.d)
QMul(a, b) == Fraction(a.n * b.n, a.d * b.d)

RECURSIVE QSum(_)
QSum(qs) == IF qs = <<>> THEN Fraction(0, 1) ELSE QAdd(qs[1], QSum(Tail(qs)))

\* (later - earlier) / earlier of two equity values
pct(earlier, later) ==
    IF earlier = 0
    THEN IF later = 0 THEN NaNCell ELSE InfCell(Sign(later))
    ELSE Fraction((later - earlier) * Sign(earlier), Abs(earlier))

\* Series.pct_change(): NaN in the first row
pct_change(equity) ==
    [k \in DOMAIN equity |->
        IF k = 1 THEN NaNCell ELSE pct(equity[k - 1], equity[k])]

\* DataFrame.sort_values('date') of the rows [date, equity]; rows of one date
\* keep their order
RECURSIVE insert_by_date(_, _)
insert_by_date(sorted, row) ==
    IF sorted = <<>> THEN <<row>>
    ELSE IF sorted[Len(sorted)].date <= row.date THEN Append(sorted, row)
    ELSE Append(insert_by_date(SubSeq(sorted, 1, Len(sorted) - 1), row),
                sorted[Len(sorted)])

RECURSIVE sort_values_date(_, _)
sort_values_date(rows, sorted) ==
    IF rows = <<>> THEN sorted
    ELSE sort_values_date(Tail(rows), insert_by_date(sorted, rows[1]))

\* strategy_returns[date][column] = value, both dicts in insertion order
RECURSIVE set_column(_, _, _)
set_column(cells, col, value) ==
    IF cells = <<>> THEN <<[col |-> col, value |-> value]>>
    ELSE IF cells[1].col = col
         THEN <<[col |-> col, value |-> value]>> \o Tail(cells)
         ELSE <<cells[1]>> \o set_column(Tail(cells), col, value)

RECURSIVE set_return(_, _, _, _)
set_return(strategy_returns, date, col, value) ==
    IF strategy_returns = <<>>
    THEN <<[date |-> date, cells |-> set_column(<<>>, col, value)]>>
    ELSE IF strategy_returns[1].date = date
         THEN <<[date |-> date,
                 cells |-> set_column(strategy_returns[1].cells, col, value)]>>
              \o Tail(strategy_returns)
         ELSE <<strategy_returns[1]>>
              \o set_return(Tail(strategy_returns), date, col, value)

\* for _, row in df.iterrows(): ...
RECURSIVE iterrows_loop(_, _, _, _, _)
iterrows_loop(strategy_returns, rows, returns, i, k) ==
    IF k > Len(rows) THEN strategy_returns
    ELSE iterrows_loop(set_return(strategy_returns, rows[k].date, i, returns[k]),
                       rows, returns, i, k + 1)

strategy_frame(strategy_data) ==
    sort_values_date([k \in DOMAIN strategy_data.exitTime |->
                         [date |-> date_of(strategy_data.exitTime[k]),
                          equity |-> strategy_data.equity[k]]], <<>>)

\* for i, strategy_data in enumerate(dfs_equity_strategies): ...
RECURSIVE returns_loop(_, _, _)
returns_loop(dfs_equity_strategies, i, strategy_returns) ==
    IF i > Len(dfs_equity_strategies) THEN Ok(strategy_returns)
    ELSE IF dfs_equity_strategies[i].exitTime = <<>>
            \/ dfs_equity_strategies[i].equity = <<>>
    THEN returns_loop(dfs_equity_strategies, i + 1, strategy_returns)
    ELSE IF \E k \in DOMAIN dfs_equity_strategies[i].exitTime :
               dfs_equity_strategies[i].exitTime[k].ty # "datetime"
    THEN Raised      \* t.date() of a str
    ELSE returns_loop(dfs_equity_strategies, i + 1,
            iterrows_loop(strategy_returns,
                strategy_frame(dfs_equity_strategies[i]),
                pct_change([k \in DOMAIN strategy_frame(dfs_equity_strategies[i]) |->
                              strategy_frame(dfs_equity_strategies[i])[k].equity]),
                i - 1, 1))

\* the columns of DataFrame.from_dict(strategy_returns, orient='index'), in
\* the order in which the rows name them first
RECURSIVE columns_loop(_, _)
columns_loop(cells, columns) ==
    IF cells = <<>> THEN columns
    ELSE columns_loop(Tail(cells),
            IF \E c \in DOMAIN columns : columns[c] = cells[1].col THEN columns
            ELSE Append(columns, cells[1].col))

RECURSIVE columns_of(_, _)
columns_of(strategy_returns, columns) ==
    IF strategy_returns = <<>> THEN columns
    ELSE columns_of(Tail(strategy_returns),
                    columns_loop(strategy_returns[1].cells, columns))

\* a cell of df_returns.fillna(0): a missing cell and a NaN are 0
filled_cell(cells, col) ==
    IF \E c \in DOMAIN cells : cells[c].col = col /\ cells[c].value.kind # "nan"
    THEN (CHOOSE c \in { cells[x] : x \in DOMAIN cells } : c.col = col).value
    ELSE Fraction(0, 1)

column_values(strategy_returns, col) ==
    [r \in DOMAIN strategy_returns |-> filled_cell(strategy_returns[r].cells, col)]

products(xs, ys) == [r \in DOMAIN xs |-> QMul(xs[r], ys[r])]

\* the number of rows times the sum of the products of the deviations of xs
\* and ys from their means
scaled_covariance(xs, ys) ==
    QSub(QMul(Fraction(Len(xs), 1), QSum(products(xs, ys))),
         QMul(QSum(xs), QSum(ys)))

pearson_of(cov, var_x, var_y) ==
    IF var_x.n = 0 \/ var_y.n = 0 THEN NaN
    ELSE Root(Sign(cov.n), cov.n * cov.n * var_x.d * var_y.d,
              cov.d * cov.d * var_x.n * var_y.n)

\* an entry of DataFrame.corr(): Pearson's coefficient of two columns, NaN
\* when a column has no variance or holds an infinity
pearson(xs, ys) ==
    IF \E r \in DOMAIN xs : xs[r].kind = "inf" \/ ys[r].kind = "inf" THEN NaN
    ELSE IF xs = ys
    THEN IF scaled_covariance(xs, xs).n = 0 THEN NaN ELSE One
    ELSE pearson_of(scaled_covariance(xs, ys), scaled_covariance(xs, xs),
                    scaled_covariance(ys, ys))

\* pd.isna(correlation_matrix[i][j]): 0.0
coerce_nan(x) == IF x = NaN THEN Zero ELSE x

corr_matrix(strategy_returns, columns) ==
    [i \in DOMAIN columns |-> [j \in DOMAIN columns |->
        coerce_nan(pearson(column_values(strategy_returns, columns[i]),
                           column_values(strategy_returns, columns[j])))]]

calculate_strategy_correlation(dfs_equity_strategies, portfolio_trades) ==
    IF Len(dfs_equity_strategies) < 2 THEN Ok(<< <<One>> >>)
    ELSE With(returns_loop(dfs_equity_strategies, 1, <<>>),
              LAMBDA strategy_returns :
           IF strategy_returns.raised THEN Raised
           ELSE Ok(corr_matrix(strategy_returns.val,
                               columns_of(strategy_returns.val, <<>>))))

\* [{"exitTime": [...], "equity": s["equity"]} for s in strategies]
equity_frames(strategies) ==
    [i \in DOMAIN strategies |->
        [exitTime |-> [k \in DOMAIN strategies[i].trades |->
                          strategies[i].trades[k].exitTime],
         equity |-> strategies[i].equity]]

-----------------------------------------------------------------------------
(* Margins *)

margin_backup ==
    [sym \in {"CL", "ES", "FDXM", "FESX", "GC", "MCL", "MES", "MGC", "MNQ",
              "NQ", "RB", "ZS", "ZW"} |->
        CASE sym = "CL" -> 5810 [] sym = "ES" -> 16563 [] sym = "FDXM" -> 7573
          [] sym = "FESX" -> 3579 [] sym = "GC" -> 12650 [] sym = "MCL" -> 583
          [] sym = "MES" -> 1656 [] sym = "MGC" -> 1265 [] sym = "MNQ" -> 2513
          [] sym = "NQ" -> 25135 [] sym = "RB" -> 6481 [] sym = "ZS" -> 2200
          [] OTHER -> 1925]

get_fallback_margins == margin_backup

\* table is what get_margins() returned
calculate_margin_for_symbol(symbol, table) ==
    LET updated == [sym \in DOMAIN margin_backup |->
                       IF DOMAIN table # {} /\ sym \in DOMAIN table
                       THEN table[sym] ELSE margin_backup[sym]]
    IN IF symbol \in DOMAIN updated THEN updated[symbol] ELSE 0

\* the margin of one contract, whatever the quantity
calculate_strategy_margins_per_contract(strategies, table) ==
    [i \in DOMAIN strategies |->
        calculate_margin_for_symbol(strategies[i].symbol, table)]

calculate_strategy_margins(strategies, table) ==
    [i \in DOMAIN strategies |->
        calculate_margin_for_symbol(strategies[i].symbol, table)
            * strategies[i].quantity]

RECURSIVE dates_loop(_, _, _)
dates_loop(current_date, end_date, dates) ==
    IF ~(current_date.v <= end_date.v) THEN Ok(dates)
    ELSE IF current_date.ty # "datetime" THEN Raised   \* a str has no .hour
    ELSE IF hour_of(current_date) + 1 > HoursPerDay - 1
         THEN Raised                          \* replace(hour=24): ValueError
    ELSE dates_loop(Dt(current_date.v + 1), end_date,
                    Append(dates, current_date))

open_trades(strategy, date) ==
    SelectSeq(strategy.trades,
              LAMBDA t : t.openTime.v <= date.v /\ date.v <= t.exitTime.v)

\* the margin counted once for every open trade
margin_used_at_per_trade(strategy, margin, date) ==
    margin * Len(open_trades(strategy, date))

margin_used_at(strategy, margin, date) ==
    IF open_trades(strategy, date) # <<>> THEN margin ELSE 0

EmptyDict == [n \in {} |-> 0]

\* d[key] = value
dict_set(d, key, value) ==
    [n \in DOMAIN d \cup {key} |-> IF n = key THEN value ELSE d[n]]

RECURSIVE snapshot_loop(_, _, _, _, _, _)
snapshot_loop(strategies, strategy_margins, date, i, strategy_margins_used, total_margin) ==
    IF i > Len(strategies)
    THEN [date |-> date, totalMargin |-> total_margin,
          strategyMargins |-> strategy_margins_used]
    ELSE LET m == margin_used_at(strategies[i], strategy_margins[i], date)
         IN snapshot_loop(strategies, strategy_margins, date, i + 1,
               dict_set(strategy_margins_used, strategies[i].name, m),
               total_margin + m)

calculate_used_margin(strategies, portfolio_trades, strategy_margins) ==
    IF portfolio_trades = <<>> THEN Ok(<<>>)
    ELSE
      LET start_date ==
              [ty |-> portfolio_trades[1].openTime.ty,
               v |-> MinSeq([i \in DOMAIN portfolio_trades |->
                                portfolio_trades[i].openTime.v])]
          end_date ==
              [ty |-> portfolio_trades[1].exitTime.ty,
               v |-> MaxSeq([i \in DOMAIN portfolio_trades |->
                                portfolio_trades[i].exitTime.v])]
          dates == dates_loop(start_date, end_date, <<>>)
      IN IF dates.raised THEN Raised
         ELSE Ok([k \in DOMAIN dates.val |->
                    snapshot_loop(strategies, strategy_margins, dates.val[k],
                                  1, EmptyDict, 0)])

count_max_occurrences(numbers) ==
    IF numbers = <<>> THEN 0
    ELSE Cardinality({ i \in DOMAIN numbers : numbers[i] = MaxSeq(numbers) })

total_margins(used_margins) ==
    [k \in DOMAIN used_margins |-> used_margins[k].totalMargin]

\* next((m["date"] for m in used_margins if m["totalMargin"] == max(...)), "")
first_max_snapshot_date(used_margins) ==
    LET totals == total_margins(used_margins)
        hits == { k \in DOMAIN used_margins : totals[k] = MaxSeq(totals) }
    IN used_margins[CHOOSE k \in hits : \A j \in hits : k <= j].date

max_used_margin(used_margins) ==
    IF used_margins # <<>> THEN MaxSeq(total_margins(used_margins)) ELSE 0

\* the margins dict of process_*_csv
upload_margins(strategy_margins, statistics, used_margins) ==
    [strategyMargins |-> strategy_margins,
     minimumAccountRequired |-> SumSeq(strategy_margins) + statistics.maxDrawdown,
     maxUsedMargin |-> max_used_margin(used_margins),
     maxUsedMarginOccurrences |->
         IF used_margins # <<>>
         THEN count_max_occurrences(total_margins(used_margins)) ELSE 0,
     maxUsedMarginFirstDate |->
         IF used_margins # <<>>
         THEN strftime_ymd(first_max_snapshot_date(used_margins))
         ELSE EmptyStr]

\* the margins dict of filter_by_date: the date is formatted with isoformat()
filter_margins(strategy_margins, statistics, used_margins) ==
    [strategyMargins |-> strategy_margins,
     minimumAccountRequired |-> SumSeq(strategy_margins) + statistics.maxDrawdown,
     maxUsedMargin |-> max_used_margin(used_margins),
     maxUsedMarginOccurrences |->
         IF used_margins # <<>>
         THEN count_max_occurrences(total_margins(used_margins)) ELSE 0,
     maxUsedMarginFirstDate |->
         IF used_margins # <<>>
         THEN isoformat(first_max_snapshot_date(used_margins))
         ELSE EmptyStr]

-----------------------------------------------------------------------------
(* File paths.  A path is the list of its pieces, the separators "/", "."  *)
(* and "-" being pieces of their own: "ES-a.csv" is                        *)
(* <<"ES", "-", "a", ".", "csv">>.                                         *)

\* toks.split(sep)[-1]
split_last(toks, sep) ==
    IF \E i \in DOMAIN toks : toks[i] = sep
    THEN LET i == CHOOSE i \in DOMAIN toks :
                     toks[i] = sep /\ \A j \in DOMAIN toks : toks[j] = sep => j <= i
         IN SubSeq(toks, i + 1, Len(toks))
    ELSE toks

\* toks.split(sep)[0]
split_first(toks, sep) ==
    IF \E i \in DOMAIN toks : toks[i] = sep
    THEN LET i == CHOOSE i \in DOMAIN toks :
                     toks[i] = sep /\ \A j \in DOMAIN toks : toks[j] = sep => i <= j
         IN SubSeq(toks, 1, i - 1)
    ELSE toks

upper(tok) ==
    CASE tok = "es" -> "ES"
      [] tok = "nq" -> "NQ"
      [] tok = "temp_0" -> "TEMP_0"
      [] tok = "temp_1" -> "TEMP_1"
      [] tok = "temp_2" -> "TEMP_2"
      [] OTHER -> tok

file_name_of(file_path) == split_first(split_last(file_path, "/"), ".")

\* file_name.split("-")[0].strip().upper(); the piece before the first "-"
\* is a single piece or nothing
symbol_of(file_name) ==
    LET head == split_first(file_name, "-")
    IN IF head = <<>> THEN "" ELSE upper(head[1])

\* f"temp_{i}.csv"
temp_path(i) == << <<"temp_0", "temp_1", "temp_2">>[i + 1], ".", "csv" >>

-----------------------------------------------------------------------------
(* process_*_csv *)

\* list.sort(key=exitTime) is stable: x goes behind every element whose key
\* is not larger
RECURSIVE insert_by_exit_time(_, _)
insert_by_exit_time(sorted, x) ==
    IF sorted = <<>> THEN <<x>>
    ELSE IF sorted[Len(sorted)].exitTime.v <= x.exitTime.v
         THEN Append(sorted, x)
         ELSE Append(insert_by_exit_time(SubSeq(sorted, 1, Len(sorted) - 1), x),
                     sorted[Len(sorted)])

RECURSIVE sort_loop(_, _)
sort_loop(todo, sorted) ==
    IF todo = <<>> THEN sorted
    ELSE sort_loop(Tail(todo), insert_by_exit_time(sorted, todo[1]))

\* a sort that is not stable: x goes before the elements of equal key
RECURSIVE insert_before_equal(_, _)
insert_before_equal(sorted, x) ==
    IF sorted = <<>> THEN <<x>>
    ELSE IF sorted[Len(sorted)].exitTime.v < x.exitTime.v
         THEN Append(sorted, x)
         ELSE Append(insert_before_equal(SubSeq(sorted, 1, Len(sorted) - 1), x),
                     sorted[Len(sorted)])

RECURSIVE unstable_sort_loop(_, _)
unstable_sort_loop(todo, sorted) ==
    IF todo = <<>> THEN sorted
    ELSE unstable_sort_loop(Tail(todo), insert_before_equal(sorted, todo[1]))

sort_by_exit_time_unstable(trades) == unstable_sort_loop(trades, <<>>)

sort_by_exit_time(trades) == sort_loop(trades, <<>>)

parse_csv(fmt, lines, quantity) ==
    IF fmt = "multicharts" THEN parse_multicharts_csv(lines, quantity)
    ELSE IF fmt = "ninjatrader" THEN parse_ninjatrader_csv(lines, quantity)
    ELSE parse_tradestation_csv(lines, quantity)

\* the body of the loop over file_paths; disk[i] is what open(file_paths[i])
\* reads
build_strategy(fmt, file_paths, disk, quants, i) ==
    With(IF i - 1 < Len(quants) THEN quants[i] ELSE 1, LAMBDA quantity :
    With(file_name_of(file_paths[i]), LAMBDA file_name :
    With(symbol_of(file_name), LAMBDA symbol :
    With(parse_csv(fmt, disk[i], quantity), LAMBDA trades :
    With(calculate_equity_curve(trades), LAMBDA equity :
       [name |-> file_name, symbol |-> symbol, quantity |-> quantity,
        trades |-> trades, equity |-> equity,
        netProfit |-> IF equity # <<>> THEN equity[Len(equity)] ELSE 0])))))

all_trades(strategies) ==
    Flatten([i \in DOMAIN strategies |-> strategies[i].trades])

NotCalled == [called |-> FALSE]

\* The locals of process_tradestation_csv / process_multicharts_csv /
\* process_ninjatrader_csv when the call ends; raised tells that it ended by
\* an exception, and report is the returned dict otherwise.
process_csv(fmt, file_paths, disk, quants, table) ==
    With([i \in DOMAIN file_paths |->
             build_strategy(fmt, file_paths, disk, quants, i)],
         LAMBDA strategies :
    With(sort_by_exit_time(all_trades(strategies)), LAMBDA portfolio_trades :
    With(calculate_equity_curve(portfolio_trades), LAMBDA portfolio_equity :
    With(calculate_drawdowns(portfolio_equity), LAMBDA drawdowns :
    With(calculate_statistics(portfolio_trades, portfolio_equity, drawdowns),
         LAMBDA statistics :
    With(calculate_monthly_returns(portfolio_trades), LAMBDA monthly_returns :
    With(calculate_daily_returns(portfolio_trades), LAMBDA daily_returns :
    With(calculate_strategy_correlation(equity_frames(strategies),
                                        portfolio_trades),
         LAMBDA correlation_matrix :
    With(calculate_strategy_margins(strategies, table),
         LAMBDA strategy_margins :
    With(calculate_used_margin(strategies, portfolio_trades, strategy_margins),
         LAMBDA used_margins :
    With(statistics.raised \/ monthly_returns.raised
         \/ daily_returns.raised \/ correlation_matrix.raised
         \/ used_margins.raised, LAMBDA raised :
       [called |-> TRUE,
        strategies |-> strategies,
        portfolio_trades |-> portfolio_trades,
        portfolio_equity |-> portfolio_equity,
        drawdowns |-> drawdowns,
        statistics |-> statistics,
        correlation_matrix |-> correlation_matrix,
        strategy_margins |-> strategy_margins,
        used_margins |-> used_margins,
        raised |-> raised,
        report |->
            IF raised THEN <<>>
            ELSE [strategies |-> strategies,
                  portfolioTrades |-> portfolio_trades,
                  portfolioEquity |-> portfolio_equity,
                  drawdowns |-> drawdowns,
                  statistics |-> statistics.val,
                  monthlyReturns |-> monthly_returns.val,
                  dailyReturns |-> daily_returns.val,
                  correlationMatrix |-> correlation_matrix.val,
                  margins |-> upload_margins(strategy_margins, statistics.val,
                                             used_margins.val),
                  usedMargins |-> used_margins.val]])))))))))))

-----------------------------------------------------------------------------
(* margin_scraper.py: the cache of the scraped margins *)

NoCacheFile ==
    [exists |-> FALSE, readable |-> FALSE, last_update |-> 0,
     margins |-> EmptyDict]
UnreadableCacheFile ==
    [exists |-> TRUE, readable |-> FALSE, last_update |-> 0,
     margins |-> EmptyDict]
CacheFile(last_update, margins) ==
    [exists |-> TRUE, readable |-> TRUE, last_update |-> last_update,
     margins |-> margins]

\* (None, None) is an empty table with no day
load_margins_from_cache(file) ==
    IF file.exists /\ file.readable
    THEN [margins |-> file.margins, last_update |-> file.last_update]
    ELSE [margins |-> EmptyDict, last_update |-> -1]

\* write is what open(cache_file, "w") and json.dump come to: "ok", or
\* "denied", an exception, which is caught and leaves the file as it was
save_margins_to_cache(file, margins_dict, day, write) ==
    IF write = "ok" THEN CacheFile(day, margins_dict) ELSE file

\* The decision of get_margins() on what load_margins_from_cache() gave it:
\* today_str is the day read at line 64; scrape is what
\* scrape_tradestation_margins() does if it is called: it returns a table,
\* returns {} or raises.  saves tells that save_margins_to_cache(result) is
\* called before the return; raised tells that the call ended by an
\* exception: the except clause of lines 88-97 answers a scrape that raised
\* as one that returned {}.

\* get_margins with no except clause around the scrape and no fallback table
get_margins_unguarded(cached, today_str, scrape) ==
    IF cached.margins # EmptyDict /\ cached.last_update = today_str
    THEN [raised |-> FALSE, result |-> cached.margins, scraped |-> FALSE,
          saves |-> FALSE]
    ELSE IF scrape.outcome = "table"
    THEN [raised |-> FALSE, result |-> scrape.table, scraped |-> TRUE,
          saves |-> TRUE]
    ELSE [raised |-> scrape.outcome = "raise",
          result |-> IF scrape.outcome = "raise" THEN EmptyDict
                     ELSE cached.margins,
          scraped |-> TRUE, saves |-> FALSE]

get_margins(cached, today_str, scrape) ==
    IF cached.margins # EmptyDict /\ cached.last_update = today_str
    THEN [raised |-> FALSE, result |-> cached.margins, scraped |-> FALSE,
          saves |-> FALSE]
    ELSE IF scrape.outcome = "table"
    THEN [raised |-> FALSE, result |-> scrape.table, scraped |-> TRUE,
          saves |-> TRUE]
    ELSE [raised |-> FALSE,
          result |-> IF cached.margins # EmptyDict THEN cached.margins
                     ELSE get_fallback_margins,
          scraped |-> TRUE, saves |-> FALSE]

-----------------------------------------------------------------------------
(* app.py *)

\* isinstance(data, datetime): data.isoformat(); anything else stays
date_to_string(data) == IF data.ty = "datetime" THEN isoformat(data) ELSE data

trade_to_strings(t) ==
    [openTime |-> date_to_string(t.openTime),
     exitTime |-> date_to_string(t.exitTime),
     profit |-> t.profit]

\* convert_dates_to_strings on a report: every datetime in it becomes its
\* isoformat() text; strings and numbers stay
convert_dates_to_strings(data) ==
    [data EXCEPT
        !.strategies = [i \in DOMAIN @ |->
            [@[i] EXCEPT !.trades = [j \in DOMAIN @ |-> trade_to_strings(@[j])]]],
        !.portfolioTrades = [j \in DOMAIN @ |-> trade_to_strings(@[j])],
        !.usedMargins = [k \in DOMAIN @ |->
            [@[k] EXCEPT !.date = date_to_string(@)]]]

NoResponse == [status |-> 0, body |-> <<>>]
Http200(body) == [status |-> 200, body |-> body]
Http500 == [status |-> 500, body |-> [error |-> "exception"]]

\* the error answered together with the fields of the report that do exist
json_response_partial(data) ==
    IF data.raised
    THEN [status |-> 500,
          body |-> [error |-> "exception",
                    strategies |-> IF "strategies" \in DOMAIN data
                                   THEN data.strategies
                                   ELSE data.filtered_strategies]]
    ELSE Http200(convert_dates_to_strings(data.report))

\* try: ... return jsonify(convert_dates_to_strings(<report>))
\* except Exception as e: return jsonify({'error': str(e)}), 500
json_response(data) ==
    IF data.raised THEN Http500
    ELSE Http200(convert_dates_to_strings(data.report))

\* start_date_str / end_date_str of the request to the bounds of the filter
start_bound(start_date_str) ==
    IF start_date_str.ty # "empty" THEN fromisoformat(start_date_str)
    ELSE datetime_1970_1_1

end_bound(end_date_str) ==
    IF end_date_str.ty # "empty" THEN fromisoformat(end_date_str)
    ELSE datetime_2100_1_1

\* the end of the range left out
exit_in_range_open_end(t, start_dt, end_dt) ==
    fromisoformat(t.exitTime).v >= start_dt.v
    /\ fromisoformat(t.exitTime).v < end_dt.v

exit_in_range(t, start_dt, end_dt) ==
    fromisoformat(t.exitTime).v >= start_dt.v
    /\ fromisoformat(t.exitTime).v <= end_dt.v

filter_trades(trades, start_dt, end_dt) ==
    SelectSeq(trades, LAMBDA t : exit_in_range(t, start_dt, end_dt))

RECURSIVE filter_strategies(_, _, _)
filter_strategies(strategies, start_dt, end_dt) ==
    IF strategies = <<>> THEN <<>>
    ELSE
      LET strategy == strategies[1]
          filtered_trades == filter_trades(strategy.trades, start_dt, end_dt)
          equity == calculate_equity_curve(filtered_trades)
          rest == filter_strategies(Tail(strategies), start_dt, end_dt)
      IN IF filtered_trades # <<>>
         THEN <<[name |-> strategy.name, symbol |-> strategy.symbol,
                 quantity |-> strategy.quantity, trades |-> filtered_trades,
                 equity |-> equity,
                 netProfit |-> IF equity # <<>> THEN equity[Len(equity)] ELSE 0]>>
              \o rest
         ELSE rest

\* The locals of filter_by_date when it ends, as for process_csv.
filter_by_date(portfolio, start_date_str, end_date_str, table) ==
    With(start_bound(start_date_str), LAMBDA start_dt :
    With(end_bound(end_date_str), LAMBDA end_dt :
    With(filter_trades(portfolio.portfolioTrades, start_dt, end_dt),
         LAMBDA filtered_portfolio_trades :
    With(filter_strategies(portfolio.strategies, start_dt, end_dt),
         LAMBDA filtered_strategies :
    With(calculate_equity_curve(filtered_portfolio_trades),
         LAMBDA filtered_portfolio_equity :
    With(calculate_drawdowns(filtered_portfolio_equity),
         LAMBDA filtered_drawdowns :
    With(calculate_statistics(filtered_portfolio_trades,
                              filtered_portfolio_equity, filtered_drawdowns),
         LAMBDA filtered_statistics :
    With(calculate_monthly_returns(filtered_portfolio_trades),
         LAMBDA filtered_monthly_returns :
    With(calculate_daily_returns(filtered_portfolio_trades),
         LAMBDA filtered_daily_returns :
    With(calculate_strategy_correlation(equity_frames(filtered_strategies),
                                        filtered_portfolio_trades),
         LAMBDA filtered_correlation_matrix :
    With(calculate_strategy_margins(filtered_strategies, table),
         LAMBDA filtered_strategy_margins :
    With(calculate_used_margin(filtered_strategies, filtered_portfolio_trades,
                               filtered_strategy_margins),
         LAMBDA filtered_used_margins :
    With(filtered_statistics.raised \/ filtered_monthly_returns.raised
         \/ filtered_daily_returns.raised
         \/ filtered_correlation_matrix.raised
         \/ filtered_used_margins.raised,
         LAMBDA raised :
       [called |-> TRUE,
        start_dt |-> start_dt,
        end_dt |-> end_dt,
        filtered_portfolio_trades |-> filtered_portfolio_trades,
        filtered_strategies |-> filtered_strategies,
        filtered_portfolio_equity |-> filtered_portfolio_equity,
        filtered_drawdowns |-> filtered_drawdowns,
        raised |-> raised,
        report |->
            IF raised THEN <<>>
            ELSE [strategies |-> filtered_strategies,
                  portfolioTrades |-> filtered_portfolio_trades,
                  portfolioEquity |-> filtered_portfolio_equity,
                  drawdowns |-> filtered_drawdowns,
                  statistics |-> filtered_statistics.val,
                  monthlyReturns |-> filtered_monthly_returns.val,
                  dailyReturns |-> filtered_daily_returns.val,
                  correlationMatrix |-> filtered_correlation_matrix.val,
                  margins |-> filter_margins(filtered_strategy_margins,
                                             filtered_statistics.val,
                                             filtered_used_margins.val),
                  usedMargins |-> filtered_used_margins.val]])))))))))))))

-----------------------------------------------------------------------------
(* The requests the model sends *)

MaxRows == 2
ParseMaxRows == 3

T0 == LastDayStart + FirstHour

SeqsUpTo(S, n) == UNION { [1..k -> S] : k \in 0..n }

\* A row of a file before it is written in a format: the texts of its entry
\* time, exit time and profit columns; a profit of AbsentText is a row cut
\* before its profit column.
AbsentText == [k |-> "absent", v |-> 0, s |-> "-"]
Row(open, exit, profit) == [open |-> open, exit |-> exit, profit |-> profit]

date_part(text) ==
    IF text.k = "datetime" THEN DatePartText(text.v \div HoursPerDay) ELSE text
time_part(text) ==
    IF text.k = "datetime" THEN TimePartText(text.v % HoursPerDay) ELSE text

cut(cols, profit) == IF profit = AbsentText THEN cols ELSE Append(cols, profit)

tradestation_lines(r) ==
    << cut(<<EmptyText, EmptyText, r.open, EmptyText, EmptyText, EmptyText,
             EmptyText>>, r.profit),
       <<EmptyText, EmptyText, r.exit>> >>

multicharts_line(r) ==
    cut(<<date_part(r.exit), time_part(r.exit), EmptyText, EmptyText, EmptyText,
          date_part(r.open), time_part(r.open), EmptyText, EmptyText, EmptyText>>,
        r.profit)

ninjatrader_line(r) == cut(<<r.open, r.exit>>, r.profit)

header(n) == [i \in 1..n |-> <<JunkText>>]

file_lines(fmt, rows) ==
    IF fmt = "multicharts"
    THEN header(MultichartsHeaderLines)
         \o [i \in DOMAIN rows |-> multicharts_line(rows[i])]
    ELSE IF fmt = "ninjatrader"
    THEN header(NinjatraderHeaderLines)
         \o [i \in DOMAIN rows |-> ninjatrader_line(rows[i])]
    ELSE header(TradestationHeaderLines)
         \o Flatten([i \in DOMAIN rows |-> tradestation_lines(rows[i])])

written(fmt, files) ==
    [i \in DOMAIN files |->
        [path |-> files[i].path, lines |-> file_lines(fmt, files[i].rows)]]

Formats == {"tradestation", "multicharts", "ninjatrader"}

PathES == <<"ES", "-", "a", ".", "csv">>
PathNQ == <<"data", "/", "nq", "-", "b", ".", "csv">>
PathESInData == <<"data", "/", "ES", "-", "a", ".", "csv">>

ScrapedTable == ("ES" :> 17000) @@ ("XX" :> 500)

\* well-formed rows with profits of both signs, exits at two hours
PlainRows ==
    { Row(DateTimeText(T0), DateTimeText(e), p) :
        e \in {T0, T0 + 1},
        p \in {NumText("minus", 2), NumText("plain", 0), NumText("plain", 1),
               NumText("plain", 3)} }

\* well-formed rows of every interval in the window, one profit
IntervalRows ==
    { Row(DateTimeText(iv[1]), DateTimeText(iv[2]), NumText("plain", 1)) :
        iv \in { x \in Times \X Times : x[1] <= x[2] } }

\* rows as exports contain them: well-formed, with the exit before the
\* entry, and broken in each column
FileRows ==
    { Row(DateTimeText(T0), DateTimeText(T0 + 1), NumText("plain", 1)),
      Row(DateTimeText(T0 + 1), DateTimeText(T0), NumText("minus", 2)),
      Row(DateTimeText(T0), DateTimeText(T0), NumText("paren", 3)),
      Row(JunkText, DateTimeText(T0 + 1), NumText("plain", 1)),
      Row(DateTimeText(T0), EmptyText, NumText("plain", 1)),
      Row(BlankText, DateTimeText(T0 + 1), NumText("plain", 1)),
      Row(DateTimeText(T0), DateTimeText(T0 + 1), JunkText),
      Row(DateTimeText(T0), DateTimeText(T0 + 1), AbsentText) }

TwoFiles(Rows, n) ==
    { <<[path |-> PathES, rows |-> r1]>> : r1 \in SeqsUpTo(Rows, n) }
    \cup { <<[path |-> PathES, rows |-> r1], [path |-> PathNQ, rows |-> r2]>> :
             r1 \in SeqsUpTo(Rows, n), r2 \in SeqsUpTo(Rows, 1) }

\* one file of up to n rows, alone or with a second file that is empty or
\* holds one trade over the first hour of the window
MarginFiles(Rows, n) ==
    { <<[path |-> PathES, rows |-> r1]>> : r1 \in SeqsUpTo(Rows, n) }
    \cup { <<[path |-> PathES, rows |-> r1], [path |-> PathNQ, rows |-> r2]>> :
             r1 \in SeqsUpTo(Rows, n),
             r2 \in SeqsUpTo({Row(DateTimeText(T0), DateTimeText(T0 + 1),
                                  NumText("plain", 1))}, 1) }

\* one file, or two files of the same base name in two directories
SameNameFiles(Rows, n) ==
    { <<[path |-> PathES, rows |-> r1]>> : r1 \in SeqsUpTo(Rows, n) }
    \cup { <<[path |-> PathES, rows |-> r1],
             [path |-> PathESInData, rows |-> r2]>> :
             r1 \in SeqsUpTo(Rows, n), r2 \in SeqsUpTo(Rows, 1) }

OneFile(Rows, n) ==
    { <<[path |-> PathES, rows |-> r1]>> : r1 \in SeqsUpTo(Rows, n) }

FilterDates == {EmptyStr} \cup { isoformat(Dt(t)) : t \in {T0, T0 + 1} }

InitWith(formats, files, quants, tables) ==
    /\ pc = "ready"
    /\ format_type \in formats
    /\ \E f \in files : uploads = written(format_type, f)
    /\ quantities \in quants
    /\ new_data \in tables
    /\ portfolio_data = NotCalled
    /\ response = NoResponse
    /\ filter_request = [startDate |-> EmptyStr, endDate |-> EmptyStr]
    /\ filtered = NotCalled
    /\ filter_response = NoResponse
    /\ temp_dir = EmptyDict
    /\ requests = <<>>
    /\ cache_file = NoCacheFile
    /\ today = 0
    /\ calls = <<>>

Init == InitWith(Formats, TwoFiles(PlainRows, MaxRows), {<<2>>},
                 {get_fallback_margins})

InitMargin == InitWith({"ninjatrader"}, MarginFiles(IntervalRows, MaxRows),
                       {<<2>>}, {get_fallback_margins, ScrapedTable})

InitNames == InitWith({"ninjatrader"}, SameNameFiles(IntervalRows, MaxRows),
                      {<<2>>}, {get_fallback_margins})

InitParse == InitWith(Formats, OneFile(FileRows, ParseMaxRows), {<<>>, <<2>>},
                      {get_fallback_margins})

paths_of(files) == [i \in DOMAIN files |-> files[i].path]
lines_of(files) == [i \in DOMAIN files |-> files[i].lines]

\* a direct call of process_<format>_csv(file_paths, quantities)
ProcessCsv ==
    /\ pc = "ready"
    /\ portfolio_data' = process_csv(format_type, paths_of(uploads),
                                     lines_of(uploads), quantities, new_data)
    /\ pc' = "processed"
    /\ UNCHANGED <<format_type, uploads, quantities, new_data, response,
                   filter_request, filtered, filter_response>>
    /\ UNCHANGED otherVars

\* POST /api/process: the files are saved as temp_<i>.csv, processed and
\* removed
ProcessFiles ==
    /\ pc = "ready"
    /\ portfolio_data' =
           process_csv(format_type,
                       [i \in DOMAIN uploads |-> temp_path(i - 1)],
                       lines_of(uploads), quantities, new_data)
    /\ response' = json_response(portfolio_data')
    /\ pc' = "uploaded"
    /\ UNCHANGED <<format_type, uploads, quantities, new_data, filter_request,
                   filtered, filter_response>>
    /\ UNCHANGED otherVars

\* POST /api/filter with the report of the upload as portfolioData
FilterByDate ==
    /\ pc = "uploaded"
    /\ response.status = 200
    /\ \E s \in FilterDates, e \in FilterDates :
         /\ filter_request' = [startDate |-> s, endDate |-> e]
         /\ filtered' = filter_by_date(response.body, s, e, new_data)
    /\ filter_response' = json_response(filtered')
    /\ pc' = "filtered"
    /\ UNCHANGED <<format_type, uploads, quantities, new_data, portfolio_data,
                   response>>
    /\ UNCHANGED otherVars

Next == ProcessCsv \/ ProcessFiles \/ FilterByDate

Spec == Init /\ [][Next]_vars
SpecMargin == InitMargin /\ [][Next]_vars
SpecParse == InitParse /\ [][Next]_vars
SpecNames == InitNames /\ [][Next]_vars

-----------------------------------------------------------------------------
(* Two /api/process requests served by two threads of one process.  A
   request is at a step of process_files: "save" (the loop of file.save),
   "open" (the parser opening the next temp file), "compute" (the rest of
   process_<format>_csv), "exists" and "remove" (the loop of the finally
   clause), "done" (the response is sent). *)

MaxUploadFiles == 1

Clients == {1, 2}

FileA == file_lines("ninjatrader",
            <<Row(DateTimeText(T0), DateTimeText(T0), NumText("plain", 1))>>)
FileB == file_lines("ninjatrader",
            <<Row(DateTimeText(T0), DateTimeText(T0 + 1), NumText("minus", 2))>>)

ClientFiles ==
    UNION { [1..n -> {FileA, FileB}] : n \in 1..MaxUploadFiles }

Request(files) ==
    [pc |-> "save", files |-> files, i |-> 1, lines |-> <<>>,
     response |-> NoResponse]

InitUpload ==
    /\ pc = "threads"
    /\ format_type = "ninjatrader"
    /\ uploads = <<>>
    /\ quantities = <<>>
    /\ new_data = get_fallback_margins
    /\ portfolio_data = NotCalled
    /\ response = NoResponse
    /\ filter_request = [startDate |-> EmptyStr, endDate |-> EmptyStr]
    /\ filtered = NotCalled
    /\ filter_response = NoResponse
    /\ temp_dir = EmptyDict
    /\ requests \in [Clients -> { Request(f) : f \in ClientFiles }]
    /\ cache_file = NoCacheFile
    /\ today = 0
    /\ calls = <<>>

\* del d[key]
dict_del(d, key) == [n \in DOMAIN d \ {key} |-> d[n]]

\* the next round of a loop over the files, or the step after the loop
next_file(request, after) ==
    IF request.i < Len(request.files)
    THEN [request EXCEPT !.i = @ + 1]
    ELSE [request EXCEPT !.i = 1, !.pc = after]

temp_paths_of(request) == [i \in DOMAIN request.files |-> temp_path(i - 1)]

\* the response of a request that no other request runs beside
alone(files) ==
    json_response(process_csv(format_type,
                              [i \in DOMAIN files |-> temp_path(i - 1)],
                              files, quantities, new_data))

UnchangedButUploads ==
    UNCHANGED <<pc, format_type, uploads, quantities, new_data, portfolio_data,
                response, filter_request, filtered, filter_response,
                cache_file, today, calls>>

\* file.save(temp_path)
SaveFile(r) ==
    /\ requests[r].pc = "save"
    /\ temp_dir' = dict_set(temp_dir, temp_path(requests[r].i - 1),
                        requests[r].files[requests[r].i])
    /\ requests' = [requests EXCEPT ![r] = next_file(@, "open")]
    /\ UnchangedButUploads

\* with open(file_path, 'r') as f: ... f.readlines(); a missing file raises,
\* the handler answers the error and goes on to the finally clause
OpenFile(r) ==
    /\ requests[r].pc = "open"
    /\ requests' = [requests EXCEPT ![r] =
          IF temp_path(@.i - 1) \in DOMAIN temp_dir
          THEN next_file([@ EXCEPT !.lines =
                             Append(@, temp_dir[temp_path(requests[r].i - 1)])],
                         "compute")
          ELSE [@ EXCEPT !.pc = "exists", !.i = 1, !.response = Http500]]
    /\ UNCHANGED temp_dir
    /\ UnchangedButUploads

\* the rest of process_<format>_csv and the response
Compute(r) ==
    /\ requests[r].pc = "compute"
    /\ requests' = [requests EXCEPT ![r] =
          [@ EXCEPT !.pc = "exists", !.i = 1,
                    !.response =
                        json_response(process_csv(format_type,
                            temp_paths_of(requests[r]), requests[r].lines,
                            quantities, new_data))]]
    /\ UNCHANGED temp_dir
    /\ UnchangedButUploads

\* if os.path.exists(path):
PathExists(r) ==
    /\ requests[r].pc = "exists"
    /\ requests' = [requests EXCEPT ![r] =
          IF temp_path(@.i - 1) \in DOMAIN temp_dir
          THEN [@ EXCEPT !.pc = "remove"]
          ELSE next_file(@, "done")]
    /\ UNCHANGED temp_dir
    /\ UnchangedButUploads

\* os.remove(path); for a file that is gone it raises out of the finally
\* clause and the server answers its own error
Remove(r) ==
    /\ requests[r].pc = "remove"
    /\ IF temp_path(requests[r].i - 1) \in DOMAIN temp_dir
       THEN /\ temp_dir' = dict_del(temp_dir, temp_path(requests[r].i - 1))
            /\ requests' = [requests EXCEPT ![r] =
                  next_file([@ EXCEPT !.pc = "exists"], "done")]
       ELSE /\ temp_dir' = temp_dir
            /\ requests' = [requests EXCEPT ![r] =
                  [@ EXCEPT !.pc = "done",
                            !.response =
                                [status |-> 500,
                                 body |-> [error |-> "Internal Server Error"]]]]
    /\ UnchangedButUploads

NextUpload ==
    \E r \in Clients :
        SaveFile(r) \/ OpenFile(r) \/ Compute(r) \/ PathExists(r) \/ Remove(r)

SpecUpload == InitUpload /\ [][NextUpload]_vars

-----------------------------------------------------------------------------
(* Calls of get_margins() over the days, by the threads that serve the
   requests.  A thread is "idle" or, between the load of the cache and the
   return, "scraping"; calls is the log of the calls that returned, in the
   order of their returns. *)

MaxCalls == 3
LastDay == 2

ScrapeTables == {ScrapedTable, ("ES" :> 18000)}

ScrapeOutcomes ==
    { [outcome |-> "table", table |-> t] : t \in ScrapeTables }
    \cup { [outcome |-> "empty", table |-> EmptyDict],
           [outcome |-> "raise", table |-> EmptyDict] }

WriteOutcomes == {"ok", "denied"}

\* the call returned before the scrape
NoScrape == [outcome |-> "none", table |-> EmptyDict]

Idle == [pc |-> "idle", cached |-> load_margins_from_cache(NoCacheFile),
         day |-> 0, begun |-> 0]

InitCache ==
    /\ pc = "margins"
    /\ format_type = "ninjatrader"
    /\ uploads = <<>>
    /\ quantities = <<>>
    /\ new_data = get_fallback_margins
    /\ portfolio_data = NotCalled
    /\ response = NoResponse
    /\ filter_request = [startDate |-> EmptyStr, endDate |-> EmptyStr]
    /\ filtered = NotCalled
    /\ filter_response = NoResponse
    /\ temp_dir = EmptyDict
    /\ requests = [r \in Clients |-> Idle]
    /\ cache_file \in {NoCacheFile, UnreadableCacheFile,
                       CacheFile(0, ScrapedTable), CacheFile(1, ScrapedTable),
                       CacheFile(1, EmptyDict)}
    /\ today = 1
    /\ calls = <<>>

UnchangedButCache ==
    UNCHANGED <<pc, format_type, uploads, quantities, new_data, portfolio_data,
                response, filter_request, filtered, filter_response, temp_dir>>

\* the calls that have begun
begun_calls ==
    Len(calls) + Cardinality({ r \in Clients : requests[r].pc = "scraping" })

\* one returned call: the day and the cache it read, the day of its return,
\* the number of calls that had returned when it began
\* and what the scrape did, if there was one
call_record(request, end_day, scrape, outcome, saved) ==
    [day |-> request.day, end_day |-> end_day, cached |-> request.cached,
     begun |-> request.begun, scrape |-> scrape, raised |-> outcome.raised,
     scraped |-> outcome.scraped, saved |-> saved, result |-> outcome.result]

\* lines 61-69: the cache is loaded, the day is read, and a table of the day
\* is returned at once
LoadCache(r) ==
    /\ requests[r].pc = "idle"
    /\ begun_calls < MaxCalls
    /\ IF get_margins(load_margins_from_cache(cache_file), today,
                      NoScrape).scraped
       THEN /\ requests' = [requests EXCEPT ![r] =
                  [pc |-> "scraping",
                   cached |-> load_margins_from_cache(cache_file),
                   day |-> today, begun |-> Len(calls)]]
            /\ calls' = calls
       ELSE /\ requests' = requests
            /\ calls' = Append(calls,
                  call_record([pc |-> "idle",
                               cached |-> load_margins_from_cache(cache_file),
                               day |-> today, begun |-> Len(calls)],
                              today, NoScrape,
                              get_margins(load_margins_from_cache(cache_file),
                                          today, NoScrape),
                              FALSE))
    /\ UNCHANGED <<cache_file, today>>
    /\ UnchangedButCache

\* lines 72-97: the scrape, the save of a scraped table and the return
ScrapeAndSave(r) ==
    /\ requests[r].pc = "scraping"
    /\ \E scrape \in ScrapeOutcomes, write \in WriteOutcomes :
         /\ cache_file' =
               IF get_margins(requests[r].cached, requests[r].day, scrape).saves
               THEN save_margins_to_cache(cache_file, scrape.table, today, write)
               ELSE cache_file
         /\ calls' = Append(calls,
               call_record(requests[r], today, scrape,
                           get_margins(requests[r].cached, requests[r].day,
                                       scrape),
                           scrape.outcome = "table" /\ write = "ok"))
    /\ requests' = [requests EXCEPT ![r] = Idle]
    /\ UNCHANGED today
    /\ UnchangedButCache

\* midnight
NextDay ==
    /\ today < LastDay
    /\ today' = today + 1
    /\ UNCHANGED <<cache_file, calls, requests>>
    /\ UnchangedButCache

NextCache == (\E r \in Clients : LoadCache(r) \/ ScrapeAndSave(r)) \/ NextDay

SpecCache == InitCache /\ [][NextCache]_vars

-----------------------------------------------------------------------------
(* Properties *)

Processed == portfolio_data.called
Returned == portfolio_data.called /\ ~portfolio_data.raised

\* the k-th smallest element of a set of indices
Nth(idx, k) == CHOOSE i \in idx : Cardinality({ j \in idx : j < i }) = k - 1

\* res consists of exactly the elements of src that satisfy P, in the order
\* of src
IsSelection(res, src, P(_)) ==
    LET idx == { i \in DOMAIN src : P(src[i]) }
    IN /\ Len(res) = Cardinality(idx)
       /\ \A k \in DOMAIN res : res[k] = src[Nth(idx, k)]

Covers(t, date) == t.openTime.v <= date.v /\ date.v <= t.exitTime.v

CoveringTrades(strategy, date) ==
    { j \in DOMAIN strategy.trades : Covers(strategy.trades[j], date) }

ActiveMargins(strategies, strategy_margins, date) ==
    [i \in DOMAIN strategies |->
        IF CoveringTrades(strategies[i], date) # {} THEN strategy_margins[i]
        ELSE 0]

\* C1: in every snapshot calculate_used_margin returns, totalMargin is the
\* sum of strategy_margins[i] over the strategies i with at least one trade
\* such that openTime <= snapshot.date <= exitTime; a strategy contributes
\* its margin once however many of its trades cover the date, and 0 when
\* none does.
C1_TotalMarginIsSumOfActiveMargins ==
    (Processed /\ ~portfolio_data.used_margins.raised) =>
        \A k \in DOMAIN portfolio_data.used_margins.val :
            LET m == portfolio_data.used_margins.val[k]
            IN m.totalMargin =
                 SumSeq(ActiveMargins(portfolio_data.strategies,
                                      portfolio_data.strategy_margins, m.date))

\* a snapshot covered by two trades of one strategy with a margin, while
\* another strategy with a margin has no trade covering it
C1_Witness ==
    /\ Processed /\ ~portfolio_data.used_margins.raised
    /\ \E k \in DOMAIN portfolio_data.used_margins.val :
         LET m == portfolio_data.used_margins.val[k]
             st == portfolio_data.strategies
         IN \E i, j \in DOMAIN st :
              /\ portfolio_data.strategy_margins[i] > 0
              /\ portfolio_data.strategy_margins[j] > 0
              /\ Cardinality(CoveringTrades(st[i], m.date)) >= 2
              /\ CoveringTrades(st[j], m.date) = {}
              /\ m.totalMargin = portfolio_data.strategy_margins[i]

GridStart == MinSeq([i \in DOMAIN portfolio_data.portfolio_trades |->
                        portfolio_data.portfolio_trades[i].openTime.v])
GridEnd == MaxSeq([i \in DOMAIN portfolio_data.portfolio_trades |->
                      portfolio_data.portfolio_trades[i].exitTime.v])

\* C2: for a non-empty portfolio, calculate_used_margin completes and
\* returns one snapshot for each of start, start+1h, start+2h, ... up to
\* end, in this order, also when the grid passes hour 23.
C2_HourlyGridCompletes ==
    (Processed /\ portfolio_data.portfolio_trades # <<>>) =>
        /\ ~portfolio_data.used_margins.raised
        /\ [k \in DOMAIN portfolio_data.used_margins.val |->
               portfolio_data.used_margins.val[k].date]
           = [k \in 1..(IF GridEnd >= GridStart THEN GridEnd - GridStart + 1 ELSE 0)
                 |-> Dt(GridStart + k - 1)]

OwnExitTimes == [i \in DOMAIN response.body.portfolioTrades |->
                    response.body.portfolioTrades[i].exitTime.v]

\* C3: filtering the report of an upload to [min exitTime, max exitTime] of
\* its own trades gives a report, not an error, with the statistics, the
\* portfolio equity, the drawdowns and the monthly and daily returns of the
\* unfiltered report.
C3_FilterToOwnRangeReproduces ==
    (/\ pc = "filtered"
     /\ response.body.portfolioTrades # <<>>
     /\ filter_request.startDate = [ty |-> "str", v |-> MinSeq(OwnExitTimes)]
     /\ filter_request.endDate = [ty |-> "str", v |-> MaxSeq(OwnExitTimes)])
    => /\ filter_response.status = 200
       /\ filter_response.body.statistics = response.body.statistics
       /\ filter_response.body.portfolioEquity = response.body.portfolioEquity
       /\ filter_response.body.drawdowns = response.body.drawdowns
       /\ filter_response.body.monthlyReturns = response.body.monthlyReturns
       /\ filter_response.body.dailyReturns = response.body.dailyReturns

\* the bounds the claim gives: an empty startDate is 1970-01-01, an empty
\* endDate 2100-01-01
ClaimedStart == IF filter_request.startDate.ty = "empty" THEN datetime_1970_1_1.v
                ELSE filter_request.startDate.v
ClaimedEnd == IF filter_request.endDate.ty = "empty" THEN datetime_2100_1_1.v
              ELSE filter_request.endDate.v

InClaimedRange(t) == ClaimedStart <= t.exitTime.v /\ t.exitTime.v <= ClaimedEnd
KeepsATrade(strategy) == \E j \in DOMAIN strategy.trades :
                            InClaimedRange(strategy.trades[j])

\* res are the strategies of src that keep a trade, each with exactly its
\* trades in the range
IsStrategySelection(res, src) ==
    LET idx == { i \in DOMAIN src : KeepsATrade(src[i]) }
    IN /\ Len(res) = Cardinality(idx)
       /\ \A k \in DOMAIN res :
            /\ res[k].name = src[Nth(idx, k)].name
            /\ res[k].symbol = src[Nth(idx, k)].symbol
            /\ res[k].quantity = src[Nth(idx, k)].quantity
            /\ res[k].trades # <<>>
            /\ IsSelection(res[k].trades, src[Nth(idx, k)].trades,
                           InClaimedRange)

\* C4: filter_by_date keeps exactly the trades with start <= exitTime <= end,
\* in their order, in the portfolio trade list and in each strategy's trade
\* list, and leaves out of the filtered report every strategy with no trade
\* left.
C4_FilterKeepsExactlyTheRange ==
    pc = "filtered" =>
        /\ filter_response.status = 200
        /\ IsSelection(filter_response.body.portfolioTrades,
                       response.body.portfolioTrades, InClaimedRange)
        /\ IsStrategySelection(filter_response.body.strategies,
                               response.body.strategies)

\* the lists the handler builds before it derives the statistics are the
\* ones of C4
C4_FilteredListsAreTheRange ==
    pc = "filtered" =>
        /\ IsSelection(filtered.filtered_portfolio_trades,
                       response.body.portfolioTrades, InClaimedRange)
        /\ IsStrategySelection(filtered.filtered_strategies,
                               response.body.strategies)

\* a filter whose end is the exit time of a trade it keeps, which drops
\* another trade and with it a whole strategy
C4_Witness ==
    /\ pc = "filtered"
    /\ filter_request.endDate.ty = "str"
    /\ \E i \in DOMAIN filtered.filtered_portfolio_trades :
         filtered.filtered_portfolio_trades[i].exitTime = filter_request.endDate
    /\ Len(filtered.filtered_portfolio_trades) < Len(response.body.portfolioTrades)
    /\ filtered.filtered_strategies # <<>>
    /\ Len(filtered.filtered_strategies) < Len(response.body.strategies)

IndexPermutations(n) == { f \in [1..n -> 1..n] : \A a, b \in 1..n : f[a] = f[b] => a = b }

\* C5: portfolioTrades is a permutation of the concatenation of the
\* strategies' trade lists, in non-decreasing exitTime, trades of equal
\* exitTime in the order of the concatenation.
C5_PortfolioTradesStablySorted ==
    Processed =>
        LET src == all_trades(portfolio_data.strategies)
            res == portfolio_data.portfolio_trades
        IN /\ Len(res) = Len(src)
           /\ \E f \in IndexPermutations(Len(src)) :
                /\ \A k \in DOMAIN res : res[k] = src[f[k]]
                /\ \A k, l \in DOMAIN res :
                     k < l =>
                       \/ res[k].exitTime.v < res[l].exitTime.v
                       \/ res[k].exitTime.v = res[l].exitTime.v /\ f[k] < f[l]

\* a returned report whose trades had to be reordered and in which two
\* different trades of different strategies exit at the same time
C5_Witness ==
    /\ Returned
    /\ portfolio_data.report.portfolioTrades
         # all_trades(portfolio_data.strategies)
    /\ Len(portfolio_data.strategies) = 2
    /\ \E a \in DOMAIN portfolio_data.strategies[1].trades,
          b \in DOMAIN portfolio_data.strategies[2].trades :
         LET x == portfolio_data.strategies[1].trades[a]
             y == portfolio_data.strategies[2].trades[b]
         IN x.exitTime = y.exitTime /\ x # y

ProfitsUpTo(trades, i) == SumSeq([k \in 1..i |-> trades[k].profit])

IsEquityOf(equity, trades) ==
    /\ Len(equity) = Len(trades)
    /\ \A i \in DOMAIN equity : equity[i] = ProfitsUpTo(trades, i)
    /\ equity # <<>> =>
          equity[Len(equity)] = SumSeq([k \in DOMAIN trades |-> trades[k].profit])
    /\ \A i \in DOMAIN equity :
          i > 1 => (equity[i] >= equity[i - 1] <=> trades[i].profit >= 0)

\* C6: calculate_equity_curve returns a sequence as long as the trades with
\* equity[i] the sum of the profits up to i; its last element is the sum of
\* all profits and equity[i] >= equity[i-1] exactly when profit[i] >= 0.
\* This is stated of every equity curve of the upload and of the filter.
C6_EquityIsRunningSum ==
    /\ Processed =>
         /\ IsEquityOf(portfolio_data.portfolio_equity,
                       portfolio_data.portfolio_trades)
         /\ \A i \in DOMAIN portfolio_data.strategies :
              IsEquityOf(portfolio_data.strategies[i].equity,
                         portfolio_data.strategies[i].trades)
    /\ pc = "filtered" =>
         /\ IsEquityOf(filtered.filtered_portfolio_equity,
                       filtered.filtered_portfolio_trades)
         /\ \A i \in DOMAIN filtered.filtered_strategies :
              IsEquityOf(filtered.filtered_strategies[i].equity,
                         filtered.filtered_strategies[i].trades)

\* a portfolio of three trades whose equity falls and rises
C6_Witness ==
    /\ Processed
    /\ Len(portfolio_data.portfolio_equity) >= 3
    /\ \E i, j \in DOMAIN portfolio_data.portfolio_equity :
         /\ i > 1 /\ j > 1
         /\ portfolio_data.portfolio_equity[i] < portfolio_data.portfolio_equity[i - 1]
         /\ portfolio_data.portfolio_equity[j] > portfolio_data.portfolio_equity[j - 1]

RunningMax(equity, i) == MaxSeq(SubSeq(equity, 1, i))

IsDrawdownOf(drawdowns, equity) ==
    /\ Len(drawdowns) = Len(equity)
    /\ \A i \in DOMAIN drawdowns :
         /\ drawdowns[i] = equity[i] - RunningMax(equity, i)
         /\ drawdowns[i] <= 0
         /\ (\A j \in 1..i : equity[j] <= equity[i]) => drawdowns[i] = 0

\* C7: calculate_drawdowns returns a sequence as long as the equity with
\* drawdowns[i] = equity[i] - max(equity[0..i]); every entry is <= 0 and it
\* is 0 wherever equity[i] is a new running maximum, index 0 included.
C7_DrawdownBelowRunningMax ==
    /\ Processed =>
         IsDrawdownOf(portfolio_data.drawdowns, portfolio_data.portfolio_equity)
    /\ pc = "filtered" =>
         IsDrawdownOf(filtered.filtered_drawdowns,
                      filtered.filtered_portfolio_equity)

\* an equity curve that starts negative, falls below its start and later
\* reaches a new maximum
C7_Witness ==
    /\ Processed
    /\ Len(portfolio_data.portfolio_equity) >= 3
    /\ portfolio_data.portfolio_equity[1] < 0
    /\ portfolio_data.drawdowns[1] = 0
    /\ portfolio_data.drawdowns[2] < 0
    /\ portfolio_data.portfolio_equity[3] > portfolio_data.portfolio_equity[1]
    /\ portfolio_data.drawdowns[3] = 0

FirstMaxSnapshot(used) ==
    CHOOSE k \in DOMAIN used :
        /\ \A j \in DOMAIN used : used[j].totalMargin <= used[k].totalMargin
        /\ \A j \in 1..(k - 1) : used[j].totalMargin < used[k].totalMargin

MarginSummaryAsClaimed(report) ==
    IF report.usedMargins = <<>>
    THEN /\ report.margins.maxUsedMargin = 0
         /\ report.margins.maxUsedMarginOccurrences = 0
         /\ report.margins.maxUsedMarginFirstDate = EmptyStr
    ELSE LET used == report.usedMargins
             k == FirstMaxSnapshot(used)
         IN /\ report.margins.maxUsedMargin = used[k].totalMargin
            /\ report.margins.maxUsedMarginOccurrences =
                 Cardinality({ j \in DOMAIN used :
                                 used[j].totalMargin = used[k].totalMargin })
            /\ report.margins.maxUsedMarginFirstDate = used[k].date

\* C8: in every report, of the upload and of the filter, maxUsedMargin is the
\* largest totalMargin of the snapshots, maxUsedMarginOccurrences the number
\* of snapshots with that totalMargin and maxUsedMarginFirstDate the
\* timestamp of the first of them; without snapshots they are 0, 0 and "".
C8_MarginSummary ==
    /\ (pc \in {"uploaded", "filtered"} /\ response.status = 200) =>
          MarginSummaryAsClaimed(response.body)
    /\ (pc = "filtered" /\ filter_response.status = 200) =>
          MarginSummaryAsClaimed(filter_response.body)

\* the part of C8 the reports do satisfy: the largest totalMargin and the
\* number of snapshots that have it
C8_MaxAndOccurrences ==
    (pc \in {"uploaded", "filtered"} /\ response.status = 200
     /\ response.body.usedMargins # <<>>) =>
        LET used == response.body.usedMargins
            k == FirstMaxSnapshot(used)
        IN /\ response.body.margins.maxUsedMargin = used[k].totalMargin
           /\ response.body.margins.maxUsedMarginOccurrences =
                Cardinality({ j \in DOMAIN used :
                                used[j].totalMargin = used[k].totalMargin })
           /\ response.body.margins.maxUsedMarginFirstDate.ty = "ymd"
           /\ response.body.margins.maxUsedMarginFirstDate.v
                = used[k].date.v \div HoursPerDay

\* The rows of a file as the parser of the format takes them: the lines
\* after the header, one by one, or for TradeStation two by two.
RowUnits(fmt, lines) ==
    IF fmt \in {"multicharts", "ninjatrader"}
    THEN [k \in 1..(Len(lines) - 1) |-> <<lines[k + 1]>>]
    ELSE [k \in 1..((Len(lines) - TradestationHeaderLines) \div 2) |->
             <<lines[TradestationHeaderLines + 2 * k - 1],
               lines[TradestationHeaderLines + 2 * k]>>]

\* the texts of the entry time, the exit time and the profit of a row; for
\* MultiCharts a time is the pair of its date and time columns
EntryText(fmt, u) ==
    IF fmt = "multicharts" THEN <<column(u[1], 5), column(u[1], 6)>>
    ELSE IF fmt = "ninjatrader" THEN <<column(u[1], 0)>>
    ELSE <<column(u[1], 2)>>
ExitText(fmt, u) ==
    IF fmt = "multicharts" THEN <<column(u[1], 0), column(u[1], 1)>>
    ELSE IF fmt = "ninjatrader" THEN <<column(u[1], 1)>>
    ELSE <<column(u[2], 2)>>
ProfitText(fmt, u) ==
    IF fmt = "multicharts" THEN column(u[1], 10)
    ELSE IF fmt = "ninjatrader" THEN column(u[1], 2)
    ELSE column(u[1], 7)

ParsedTime(fmt, texts) ==
    IF fmt = "multicharts" THEN parse_multicharts_date(texts[1], texts[2])
    ELSE IF fmt = "ninjatrader" THEN parse_ninjatrader_date(texts[1])
    ELSE parse_date(texts[1])
ParsedProfit(fmt, text) ==
    IF fmt = "multicharts" THEN parse_multicharts_profit(text)
    ELSE IF fmt = "ninjatrader" THEN parse_ninjatrader_profit(text)
    ELSE parse_profit(text)

HasItsFields(fmt, u) ==
    /\ \A i \in DOMAIN EntryText(fmt, u) : EntryText(fmt, u)[i] # EmptyText
    /\ \A i \in DOMAIN ExitText(fmt, u) : ExitText(fmt, u)[i] # EmptyText
    /\ ProfitText(fmt, u) # EmptyText

WellFormed(fmt, u) ==
    /\ HasItsFields(fmt, u)
    /\ ~ParsedTime(fmt, EntryText(fmt, u)).raised
    /\ ~ParsedTime(fmt, ExitText(fmt, u)).raised
    /\ ~ParsedProfit(fmt, ProfitText(fmt, u)).raised

TradeOfRow(fmt, u, quantity) ==
    Trade(ParsedTime(fmt, EntryText(fmt, u)).val,
          ParsedTime(fmt, ExitText(fmt, u)).val,
          ParsedProfit(fmt, ProfitText(fmt, u)).val * quantity)

\* C9: a row that lacks a required field, or whose date or profit text does
\* not parse, is left out, and every well-formed row of the file, before
\* and after it, gives exactly one trade, in file order: the trades of a
\* file are the trades of its well-formed rows.
C9_MalformedRowsAreSkipped ==
    Processed =>
        \A i \in DOMAIN portfolio_data.strategies :
            LET units == RowUnits(format_type, uploads[i].lines)
                good == { k \in DOMAIN units : WellFormed(format_type, units[k]) }
                trades == portfolio_data.strategies[i].trades
            IN /\ Len(trades) = Cardinality(good)
               /\ \A k \in DOMAIN trades :
                    trades[k] = TradeOfRow(format_type, units[Nth(good, k)],
                                           portfolio_data.strategies[i].quantity)

\* a file of three rows whose second row has its fields but does not parse,
\* between two well-formed rows that give the two trades of the file
C9_Witness ==
    /\ Processed
    /\ LET units == RowUnits(format_type, uploads[1].lines)
       IN /\ Len(units) = 3
          /\ WellFormed(format_type, units[1])
          /\ HasItsFields(format_type, units[2])
          /\ ~WellFormed(format_type, units[2])
          /\ WellFormed(format_type, units[3])
          /\ Len(portfolio_data.strategies[1].trades) = 2

\* C10: every trade of a strategy and of the portfolio has
\* openTime <= exitTime, whatever the rows of the file contain.
C10_OpenNotAfterExit ==
    Processed =>
        /\ \A i \in DOMAIN portfolio_data.strategies :
             \A j \in DOMAIN portfolio_data.strategies[i].trades :
                portfolio_data.strategies[i].trades[j].openTime.v
                  <= portfolio_data.strategies[i].trades[j].exitTime.v
        /\ \A j \in DOMAIN portfolio_data.portfolio_trades :
             portfolio_data.portfolio_trades[j].openTime.v
               <= portfolio_data.portfolio_trades[j].exitTime.v

-----------------------------------------------------------------------------
(* Statistics of the portfolio *)

\* calculate_statistics returned a record
StatisticsReturned ==
    portfolio_data.called /\ ~portfolio_data.statistics.raised

\* calculate_statistics returned a record for a portfolio with trades
HasStatistics ==
    /\ portfolio_data.called
    /\ portfolio_data.portfolio_trades # <<>>
    /\ ~portfolio_data.statistics.raised

PortfolioProfits ==
    [i \in DOMAIN portfolio_data.portfolio_trades |->
        portfolio_data.portfolio_trades[i].profit]

Winners == { i \in DOMAIN PortfolioProfits : PortfolioProfits[i] > 0 }
Losers == { i \in DOMAIN PortfolioProfits : PortfolioProfits[i] < 0 }

GrossProfit ==
    SumSeq([i \in DOMAIN PortfolioProfits |->
               IF i \in Winners THEN PortfolioProfits[i] ELSE 0])
GrossLoss ==
    SumSeq([i \in DOMAIN PortfolioProfits |->
               IF i \in Losers THEN -PortfolioProfits[i] ELSE 0])

\* a finite float whose value is n / d
IsQuotient(x, n, d) ==
    /\ x.kind = "number"
    /\ x.sign * x.num * d = n * x.den

\* C11: profitFactor is +infinity if and only if the trades have no losing
\* trade (profit < 0) and at least one winning trade (profit > 0); otherwise
\* it is the finite ratio of the sum of the positive profits to the absolute
\* sum of the negative profits.
C11_ProfitFactorInfiniteIffWinsOnly ==
    StatisticsReturned =>
        /\ portfolio_data.statistics.val.profitFactor = Infinity
              <=> (Losers = {} /\ Winners # {})
        /\ Losers # {} =>
              IsQuotient(portfolio_data.statistics.val.profitFactor,
                         GrossProfit, GrossLoss)

\* C11, amended: profitFactor is +infinity if and only if the trades have no
\* losing trade, whether or not one of them wins; otherwise it is the finite
\* ratio of the sum of the positive profits to the absolute sum of the
\* negative profits.
C11_ProfitFactorInfiniteIffNoLoss ==
    StatisticsReturned =>
        /\ portfolio_data.statistics.val.profitFactor = Infinity
              <=> Losers = {}
        /\ Losers # {} =>
              IsQuotient(portfolio_data.statistics.val.profitFactor,
                         GrossProfit, GrossLoss)

\* trades none of which wins or loses, and an infinite profit factor
C11_Witness ==
    /\ HasStatistics
    /\ Losers = {} /\ Winners = {}
    /\ portfolio_data.statistics.val.profitFactor = Infinity

\* the length of the longest run of consecutive indices in idx
LongestRun(idx, n) ==
    LET runs == { r \in (1..n) \X (1..n) :
                    r[1] <= r[2] /\ \A k \in r[1]..r[2] : k \in idx }
    IN IF runs = {} THEN 0
       ELSE CHOOSE len \in 1..n :
              /\ \E r \in runs : r[2] - r[1] + 1 = len
              /\ \A r \in runs : r[2] - r[1] + 1 <= len

\* C12: maxConsecutiveWinningTrades (maxConsecutiveLosingTrades) is the
\* length of the longest run, in the order of the trades, of trades with
\* profit > 0 (profit < 0); a trade with profit 0 ends both kinds of run,
\* and the value is 0 without such a trade.
C12_MaxConsecutiveIsLongestRun ==
    HasStatistics =>
        /\ portfolio_data.statistics.val.maxConsecutiveWinningTrades
              = LongestRun(Winners, Len(PortfolioProfits))
        /\ portfolio_data.statistics.val.maxConsecutiveLosingTrades
              = LongestRun(Losers, Len(PortfolioProfits))

\* two winning trades with a trade of profit 0 between them
C12_Witness ==
    /\ HasStatistics
    /\ \E i \in DOMAIN PortfolioProfits :
         /\ i - 1 \in Winners /\ i + 1 \in Winners
         /\ PortfolioProfits[i] = 0
    /\ portfolio_data.statistics.val.maxConsecutiveWinningTrades = 1

-----------------------------------------------------------------------------
(* Correlation matrix *)

CorrelationReturned ==
    portfolio_data.called /\ ~portfolio_data.correlation_matrix.raised

CorrelationMatrix == portfolio_data.correlation_matrix.val

\* -1 <= x <= 1
InUnitRange(x) ==
    /\ x.kind \in {"number", "root"}
    /\ x.num <= x.den

\* the strategies that carry data: trades, and with them an equity curve
CarryData ==
    { i \in DOMAIN portfolio_data.strategies :
        /\ portfolio_data.strategies[i].trades # <<>>
        /\ portfolio_data.strategies[i].equity # <<>> }

\* C13: the matrix of calculate_strategy_correlation is square with as many
\* rows as there are strategies, symmetric, 1.0 on the diagonal and within
\* [-1, 1] everywhere, also for strategies with no trade, with one trade or
\* with a constant series of returns.
C13_CorrelationMatrixWellFormed ==
    CorrelationReturned =>
        /\ Len(CorrelationMatrix) =
              (IF Len(portfolio_data.strategies) < 2 THEN 1
               ELSE Len(portfolio_data.strategies))
        /\ \A i \in DOMAIN CorrelationMatrix :
              /\ Len(CorrelationMatrix[i]) = Len(CorrelationMatrix)
              /\ CorrelationMatrix[i][i] = One
              /\ \A j \in DOMAIN CorrelationMatrix :
                    /\ CorrelationMatrix[i][j] = CorrelationMatrix[j][i]
                    /\ InUnitRange(CorrelationMatrix[i][j])

\* C14: with fewer than 2 strategies that carry data, whatever the number of
\* strategies, calculate_strategy_correlation returns exactly [[1.0]].
C14_SingletonBelowTwoWithData ==
    (CorrelationReturned /\ Cardinality(CarryData) < 2)
        => CorrelationMatrix = << <<One>> >>

\* what holds of every matrix: it is square, symmetric and within [-1, 1]
C13_SquareSymmetricBounded ==
    CorrelationReturned =>
        \A i \in DOMAIN CorrelationMatrix :
            /\ Len(CorrelationMatrix[i]) = Len(CorrelationMatrix)
            /\ \A j \in DOMAIN CorrelationMatrix :
                  /\ CorrelationMatrix[i][j] = CorrelationMatrix[j][i]
                  /\ InUnitRange(CorrelationMatrix[i][j])

-----------------------------------------------------------------------------
(* Sharpe and Sortino ratios, degenerate input *)

ExitDays ==
    { date_of(portfolio_data.portfolio_trades[i].exitTime) :
        i \in DOMAIN portfolio_data.portfolio_trades }

\* the sum of the profits of the trades that exit on day d
DaySum(d) ==
    SumSeq([i \in DOMAIN portfolio_data.portfolio_trades |->
               IF date_of(portfolio_data.portfolio_trades[i].exitTime) = d
               THEN portfolio_data.portfolio_trades[i].profit ELSE 0])

NegativeDays == { d \in ExitDays : DaySum(d) < 0 }

\* C15: sharpeRatio is 0 whenever the standard deviation of the profit sums
\* per exit day is 0 or undefined or there are fewer than 2 trades, and
\* sortinoRatio is 0 whenever no day is negative or there are fewer than 2
\* trades; neither ratio is ever NaN, also for 2 or more trades that exit on
\* one day and for a single negative day.
C15_RatiosZeroWhenUndefined ==
    HasStatistics =>
        /\ (Len(portfolio_data.portfolio_trades) < 2
            \/ \A d1, d2 \in ExitDays : DaySum(d1) = DaySum(d2))
              => portfolio_data.statistics.val.sharpeRatio = Zero
        /\ (Len(portfolio_data.portfolio_trades) < 2 \/ NegativeDays = {})
              => portfolio_data.statistics.val.sortinoRatio = Zero
        /\ portfolio_data.statistics.val.sharpeRatio # NaN
        /\ portfolio_data.statistics.val.sortinoRatio # NaN

\* what holds of the two ratios: 0 below 2 trades, a Sharpe ratio of 0 for
\* two or more days of equal sums, a Sortino ratio of 0 without a negative
\* day
C15_RatiosZeroWhereGuarded ==
    HasStatistics =>
        /\ Len(portfolio_data.portfolio_trades) < 2
              => /\ portfolio_data.statistics.val.sharpeRatio = Zero
                 /\ portfolio_data.statistics.val.sortinoRatio = Zero
        /\ (Cardinality(ExitDays) >= 2
            /\ \A d1, d2 \in ExitDays : DaySum(d1) = DaySum(d2))
              => portfolio_data.statistics.val.sharpeRatio = Zero
        /\ NegativeDays = {}
              => portfolio_data.statistics.val.sortinoRatio = Zero

\* C16: a report built from degenerate input does not raise: when no file
\* yields a trade the statistics are the placeholder record (profitFactor,
\* netProfitMaxDD and netProfitMeanDD +infinity, realMinimumAccountReq
\* 10000), the equity, the drawdowns and usedMargins are empty and
\* maxUsedMargin is 0; for trades with a maximum or mean drawdown of 0,
\* netProfitMaxDD and netProfitMeanDD are +infinity.
C16_DegenerateInputHasDefinedResult ==
    /\ (portfolio_data.called /\ portfolio_data.portfolio_trades = <<>>) =>
          /\ ~portfolio_data.raised
          /\ portfolio_data.report.statistics.totalNetProfit = 0
          /\ portfolio_data.report.statistics.totalTrades = 0
          /\ portfolio_data.report.statistics.maxDrawdown = 0
          /\ portfolio_data.report.statistics.sharpeRatio = Zero
          /\ portfolio_data.report.statistics.sortinoRatio = Zero
          /\ portfolio_data.report.statistics.profitFactor = Infinity
          /\ portfolio_data.report.statistics.netProfitMaxDD = Infinity
          /\ portfolio_data.report.statistics.netProfitMeanDD = Infinity
          /\ portfolio_data.report.statistics.realMinimumAccountReq = 10000
          /\ portfolio_data.report.portfolioEquity = <<>>
          /\ portfolio_data.report.drawdowns = <<>>
          /\ portfolio_data.report.usedMargins = <<>>
          /\ portfolio_data.report.margins.maxUsedMargin = 0
    /\ (pc = "uploaded" /\ portfolio_data.portfolio_trades = <<>>) =>
          response.status = 200
    /\ (portfolio_data.called /\ portfolio_data.portfolio_trades # <<>>) =>
          /\ ~portfolio_data.statistics.raised
          /\ (\A i \in DOMAIN portfolio_data.drawdowns :
                 portfolio_data.drawdowns[i] = 0)
              => /\ portfolio_data.statistics.val.netProfitMaxDD = Infinity
                 /\ portfolio_data.statistics.val.netProfitMeanDD = Infinity

\* an upload of two files without a trade, answered with the report of the
\* placeholder statistics
C16_Witness ==
    /\ pc = "uploaded"
    /\ Len(uploads) = 2
    /\ portfolio_data.portfolio_trades = <<>>
    /\ response.status = 200
    /\ response.body.statistics.netProfitMaxDD = Infinity

\* C17: two upload requests handled concurrently each answer what they
\* would answer if run alone, in every interleaving of their steps (save the
\* temp files, open them, compute, delete the temp files): none parses what
\* the other wrote and none fails because the other deleted its file.
C17_ConcurrentRequestsAsIfAlone ==
    \A r \in DOMAIN requests :
        requests[r].pc = "done"
            => requests[r].response = alone(requests[r].files)

ReportFields ==
    {"strategies", "portfolioTrades", "portfolioEquity", "drawdowns",
     "statistics", "monthlyReturns", "dailyReturns", "correlationMatrix",
     "margins", "usedMargins"}

IsCompleteReport(resp) ==
    resp.status = 200 /\ DOMAIN resp.body = ReportFields

IsErrorObject(resp) ==
    resp.status = 500 /\ DOMAIN resp.body = {"error"}

\* C18: every upload and every filter request is answered either by a
\* complete report with the ten report fields or by an error object that
\* holds a message and nothing else; when the processing raised the answer is
\* the error object, whatever had been computed before.
C18_AllOrNothing ==
    /\ pc \in {"uploaded", "filtered"} =>
          /\ IsCompleteReport(response) \/ IsErrorObject(response)
          /\ portfolio_data.raised => IsErrorObject(response)
          /\ ~portfolio_data.raised => IsCompleteReport(response)
    /\ filtered.called =>
          /\ IsCompleteReport(filter_response) \/ IsErrorObject(filter_response)
          /\ filtered.raised => IsErrorObject(filter_response)
          /\ ~filtered.raised => IsCompleteReport(filter_response)

\* an upload that raised after its strategies, trades and equity had been
\* computed
C18_Witness ==
    /\ pc = "uploaded"
    /\ portfolio_data.raised
    /\ portfolio_data.portfolio_trades # <<>>
    /\ portfolio_data.portfolio_equity # <<>>
    /\ response.status = 500

\* the margin of one contract of a symbol, read off the tables
MarginPerContract(symbol) ==
    IF symbol \notin DOMAIN margin_backup THEN 0
    ELSE IF symbol \in DOMAIN new_data THEN new_data[symbol]
    ELSE margin_backup[symbol]

IsStrategyMargins(strategies, strategy_margins) ==
    /\ Len(strategy_margins) = Len(strategies)
    /\ \A i \in DOMAIN strategies :
          /\ strategy_margins[i] =
                MarginPerContract(strategies[i].symbol) * strategies[i].quantity
          /\ strategies[i].symbol \notin DOMAIN margin_backup
                => strategy_margins[i] = 0

\* C19: calculate_strategy_margins returns one entry per strategy, in
\* strategy order, entry i being the margin of one contract of strategy i's
\* symbol times strategy i's quantity; a symbol the lookup does not know has
\* margin 0 and does not make the call fail.
C19_StrategyMarginsPerStrategy ==
    /\ (portfolio_data.called /\ ~portfolio_data.statistics.raised
          /\ ~portfolio_data.correlation_matrix.raised) =>
          IsStrategyMargins(portfolio_data.strategies,
                            portfolio_data.strategy_margins)
    /\ (portfolio_data.called /\ ~portfolio_data.raised) =>
          portfolio_data.report.margins.strategyMargins
              = portfolio_data.strategy_margins
    /\ (filtered.called /\ ~filtered.raised) =>
          IsStrategyMargins(filtered.filtered_strategies,
                            filtered.report.margins.strategyMargins)

\* two strategies with trades, two contracts of ES at the scraped margin and
\* one of NQ at the built-in margin
C19_Witness ==
    /\ portfolio_data.called
    /\ ~portfolio_data.raised
    /\ Len(portfolio_data.strategies) = 2
    /\ portfolio_data.strategies[1].symbol = "ES"
    /\ portfolio_data.strategies[1].quantity = 2
    /\ portfolio_data.strategies[1].trades # <<>>
    /\ portfolio_data.strategies[2].symbol = "NQ"
    /\ new_data = ScrapedTable
    /\ portfolio_data.report.margins.strategyMargins = <<34000, 25135>>

\* an upload through /api/process: the symbols come from temp_<i> and are
\* unknown, every margin is 0 and the report is returned
C19_UnknownSymbolReached ==
    /\ pc = "uploaded"
    /\ response.status = 200
    /\ Len(portfolio_data.strategies) = 2
    /\ portfolio_data.strategy_margins = <<0, 0>>

\* the loaded cache holds a non-empty table of the day
FreshCache(cached, day) ==
    cached.margins # EmptyDict /\ cached.last_update = day

\* call j began after call i had returned
LaterCall(i, j) == i # j /\ calls[j].begun >= i

\* C20: get_margins answers from the cache without scraping exactly when the
\* cache holds a non-empty table whose last_update is today, and scrapes
\* otherwise; so after a call that scraped a table and wrote the cache, every
\* later call on that day returns the same table and does not scrape.
C20_CacheUsedExactlyWhenFresh ==
    /\ \A k \in DOMAIN calls :
          /\ calls[k].scraped <=> ~FreshCache(calls[k].cached, calls[k].day)
          /\ ~calls[k].scraped => calls[k].result = calls[k].cached.margins
    /\ \A i \in DOMAIN calls : \A j \in DOMAIN calls :
          (LaterCall(i, j) /\ calls[i].scraped /\ calls[i].saved
             /\ calls[j].day = calls[i].end_day)
          => /\ ~calls[j].scraped
             /\ calls[j].result = calls[i].result

\* the first half of C20 alone: a call scrapes exactly when the cache it
\* loaded is not a non-empty table of the day
C20_ScrapesExactlyWhenNotFresh ==
    \A k \in DOMAIN calls :
        /\ calls[k].scraped <=> ~FreshCache(calls[k].cached, calls[k].day)
        /\ ~calls[k].scraped => calls[k].result = calls[k].cached.margins

\* the second half of C20 for calls none of which overlaps another
C20_SameTableWhenOneAtATime ==
    (\A k \in DOMAIN calls : calls[k].begun = k - 1) =>
        \A i \in DOMAIN calls : \A j \in DOMAIN calls :
            (i < j /\ calls[i].scraped /\ calls[i].saved
               /\ calls[j].day = calls[i].end_day)
            => /\ ~calls[j].scraped
               /\ calls[j].result = calls[i].result

\* a call that scraped and saved, then a call of the same day answered from
\* the cache, and after midnight a call that scrapes again
C20_OneAtATimeReached ==
    /\ Len(calls) = 3
    /\ \A k \in DOMAIN calls : calls[k].begun = k - 1
    /\ calls[1].scraped /\ calls[1].saved
    /\ calls[2].day = calls[1].end_day
    /\ ~calls[2].scraped
    /\ calls[2].result = calls[1].result
    /\ calls[3].day > calls[2].day
    /\ calls[3].scraped

\* the table the precedence of C21 picks for a call
TableByPrecedence(call) ==
    IF call.cached.margins # EmptyDict /\ call.cached.last_update = call.day
    THEN call.cached.margins
    ELSE IF call.scrape.outcome = "table" /\ call.scrape.table # EmptyDict
    THEN call.scrape.table
    ELSE IF call.cached.margins # EmptyDict THEN call.cached.margins
    ELSE get_fallback_margins

\* C21: get_margins never raises and always returns a non-empty table: the
\* cache if it is of today, else the scraped table if the scrape returned a
\* non-empty one, else the stale cache if there is a non-empty one, else the
\* built-in fallback table; whether the scrape returns {} or raises, and
\* whether the cache file is missing, unreadable or cannot be written.
C21_NeverRaisesTableByPrecedence ==
    \A k \in DOMAIN calls :
        /\ ~calls[k].raised
        /\ calls[k].result # EmptyDict
        /\ calls[k].result = TableByPrecedence(calls[k])

\* with the cache file unreadable, a scrape that raised answered by the
\* fallback table, a scrape whose table could not be written answered by that
\* table, and a scrape that returned {} answered by the fallback table
C21_Witness ==
    /\ Len(calls) = 3
    /\ cache_file = UnreadableCacheFile
    /\ calls[1].scrape.outcome = "raise"
    /\ calls[1].result = get_fallback_margins
    /\ calls[2].scrape.outcome = "table"
    /\ ~calls[2].saved
    /\ calls[2].result = calls[2].scrape.table
    /\ calls[3].scrape.outcome = "empty"
    /\ calls[3].result = get_fallback_margins

\* a stale cache answered when the scrape fails
C21_StaleCacheReached ==
    \E k \in DOMAIN calls :
        /\ calls[k].scraped
        /\ calls[k].scrape.outcome # "table"
        /\ calls[k].cached.margins # EmptyDict
        /\ calls[k].cached.last_update < calls[k].day
        /\ calls[k].result = calls[k].cached.margins

RECURSIVE SumOverKeys(_, _)
SumOverKeys(d, keys) ==
    IF keys = {} THEN 0
    ELSE LET k == CHOOSE x \in keys : TRUE
         IN d[k] + SumOverKeys(d, keys \ {k})

\* the sum of the values of a mapping
SumOfValues(d) == SumOverKeys(d, DOMAIN d)

UsedMarginsReturned ==
    portfolio_data.called /\ ~portfolio_data.statistics.raised
    /\ ~portfolio_data.correlation_matrix.raised
    /\ ~portfolio_data.used_margins.raised

SnapshotsAddUp ==
    \A k \in DOMAIN portfolio_data.used_margins.val :
        LET snapshot == portfolio_data.used_margins.val[k]
        IN /\ snapshot.totalMargin = SumOfValues(snapshot.strategyMargins)
           /\ Cardinality(DOMAIN snapshot.strategyMargins)
                 = Len(portfolio_data.strategies)

DistinctNames ==
    \A i \in DOMAIN portfolio_data.strategies :
        \A j \in DOMAIN portfolio_data.strategies :
            portfolio_data.strategies[i].name = portfolio_data.strategies[j].name
                => i = j

\* C22: in every snapshot calculate_used_margin returns, totalMargin is the
\* sum of the values of the snapshot's strategyMargins mapping and the mapping
\* has one key per strategy passed in, also when two strategies share a name.
C22_TotalIsSumOfStrategyMargins ==
    UsedMarginsReturned => SnapshotsAddUp

\* C22 for strategies of distinct names
C22_HoldsForDistinctNames ==
    (UsedMarginsReturned /\ DistinctNames) => SnapshotsAddUp

\* two strategies of distinct names with a snapshot in which both hold a trade
C22_DistinctNamesReached ==
    /\ UsedMarginsReturned
    /\ DistinctNames
    /\ Len(portfolio_data.strategies) = 2
    /\ \E k \in DOMAIN portfolio_data.used_margins.val :
          portfolio_data.used_margins.val[k].totalMargin
              = portfolio_data.strategy_margins[1]
                  + portfolio_data.strategy_margins[2]
    /\ portfolio_data.strategy_margins[1] > 0
    /\ portfolio_data.strategy_margins[2] > 0

\* strategy i is named after the file the caller named and carries the
\* margin of that name's symbol
NamedAfterFiles ==
    /\ Len(portfolio_data.strategies) = Len(uploads)
    /\ \A i \in DOMAIN uploads :
          LET file_name == file_name_of(uploads[i].path)
              strategy == portfolio_data.strategies[i]
          IN /\ strategy.name = file_name
             /\ strategy.symbol = symbol_of(file_name)
             /\ portfolio_data.strategy_margins[i]
                   = MarginPerContract(symbol_of(file_name)) * strategy.quantity

\* C23: for every file uploaded through process_files the strategy's name is
\* the base name of the file the client uploaded and its symbol the part of
\* that name before the first "-", trimmed and upper-cased, so that a file
\* named for a known symbol gets that symbol's margin times its quantity as
\* strategy margin, not 0.
C23_UploadNamedAfterClientFile ==
    pc \in {"uploaded", "filtered"} => NamedAfterFiles

\* the same for a direct call of process_<format>_csv on the files
C23_DirectCallNamedAfterFile ==
    pc = "processed" => NamedAfterFiles

\* a direct call on ES-a.csv and data/nq-b.csv with two contracts of ES
C23_DirectCallReached ==
    /\ pc = "processed"
    /\ Len(uploads) = 2
    /\ portfolio_data.strategies[1].symbol = "ES"
    /\ portfolio_data.strategies[2].symbol = "NQ"
    /\ portfolio_data.strategy_margins = <<33126, 25135>>

=============================================================================
